---- MODULE Spec2Model ----
(***************************************************************************)
(* Model of the Modern Greek conjugation generator                         *)
(* (app/services/greek_conjugation_generator.py), its class table          *)
(* (greek_conjugation_classes.py) and the text normaliser it uses          *)
(* (greek_text.py).                                                        *)
(*                                                                         *)
(* A Python str is a sequence of one-character strings.  The combining     *)
(* acute accent U+0301 is written "U+0301".  A dict is a function whose    *)
(* DOMAIN is its key set.  Optional[...] is a sequence of length 0 (None)  *)
(* or 1.                                                                   *)
(***************************************************************************)
EXTENDS Integers, Sequences, FiniteSets, TLC

VARIABLES lexicon, irregulars, phase, lemma, normalized, entry, irregular,
          built, forms, outcome, prev, calls,
          log, load, threads, heap, db, reply

\* state of the generator runs
genVars == <<lexicon, irregulars, phase, lemma, normalized, entry, irregular,
             built, forms, outcome, prev, calls>>

\* the calls of GreekTextProcessor functions made so far, oldest first
textVars == <<log>>

\* a source file and what each loader made of it
loadVars == <<load>>

\* concurrent generate_conjugations calls and the objects they allocated
concVars == <<threads, heap>>

\* the rows submit_answer reads and writes, and the last request with the
\* rows it found and the response it got
answerVars == <<db, reply>>

vars == <<genVars, textVars, loadVars, concVars, answerVars>>

----------------------------------------------------------------------------
(* Python str helpers *)

\* ''.join(ss), by halves
RECURSIVE JoinAll(_)
JoinAll(ss) ==
    IF ss = <<>> THEN <<>>
    ELSE IF Len(ss) = 1 THEN ss[1]
    ELSE JoinAll(SubSeq(ss, 1, Len(ss) \div 2))
           \o JoinAll(SubSeq(ss, (Len(ss) \div 2) + 1, Len(ss)))

StartsWith(s, p) == Len(s) >= Len(p) /\ SubSeq(s, 1, Len(p)) = p

EndsWith(s, p) == Len(s) >= Len(p) /\ SubSeq(s, Len(s) - Len(p) + 1, Len(s)) = p

DropFirst(s, n) == SubSeq(s, n + 1, Len(s))

DropLast(s, n) == SubSeq(s, 1, Len(s) - n)

ReplaceChar(s, a, b) == [i \in 1..Len(s) |-> IF s[i] = a THEN b ELSE s[i]]

IndexIn(seq, c) == CHOOSE i \in 1..Len(seq) : seq[i] = c

Whitespace == {" "}

RECURSIVE LStrip(_)
LStrip(s) == IF s # <<>> /\ Head(s) \in Whitespace THEN LStrip(Tail(s)) ELSE s

RECURSIVE RStrip(_)
RStrip(s) == IF s # <<>> /\ s[Len(s)] \in Whitespace THEN RStrip(DropLast(s, 1)) ELSE s

Strip(s) == RStrip(LStrip(s))

----------------------------------------------------------------------------
(* Unicode data for the characters of the model *)

UpperLetters == <<"Α","Β","Γ","Δ","Ε","Ζ","Η","Θ","Ι","Κ","Λ","Μ","Ν","Ξ","Ο","Π","Ρ","Σ","Τ","Υ","Φ","Χ","Ψ","Ω",
                  "Ά","Έ","Ή","Ί","Ό","Ύ","Ώ">>

LowerLetters == <<"α","β","γ","δ","ε","ζ","η","θ","ι","κ","λ","μ","ν","ξ","ο","π","ρ","σ","τ","υ","φ","χ","ψ","ω",
                  "ά","έ","ή","ί","ό","ύ","ώ">>

AccentedLetters == <<"ά","έ","ή","ί","ό","ύ","ώ","Ά","Έ","Ή","Ί","Ό","Ύ","Ώ">>

BaseLetters == <<"α","ε","η","ι","ο","υ","ω","Α","Ε","Η","Ι","Ο","Υ","Ω">>

Range(seq) == {seq[i] : i \in 1..Len(seq)}

LatinUpper == <<"A","B","C","D","E","F","G","H","I","J","K","L","M",
                "N","O","P","Q","R","S","T","U","V","W","X","Y","Z">>

LatinLower == <<"a","b","c","d","e","f","g","h","i","j","k","l","m",
                "n","o","p","q","r","s","t","u","v","w","x","y","z">>

CombiningAcute == "U+0301"

\* unicodedata.category(c) == 'Mn'
IsMn(c) == c = CombiningAcute

IsCased(c) ==
    c \in Range(UpperLetters) \cup Range(LowerLetters) \cup {"ς"}
          \cup Range(LatinUpper) \cup Range(LatinLower)

IsCaseIgnorable(c) == IsMn(c)

\* canonical decomposition of one character
Decompose(c) ==
    IF c \in Range(AccentedLetters)
    THEN <<BaseLetters[IndexIn(AccentedLetters, c)], CombiningAcute>>
    ELSE <<c>>

\* unicodedata.normalize('NFD', s)
NFD(s) == JoinAll([i \in 1..Len(s) |-> Decompose(s[i])])

\* canonical composition of a decomposed string: a mark combines with the
\* starter right before it when the pair has a precomposed character
Combines(s, i) == i > 1 /\ IsMn(s[i]) /\ s[i - 1] \in Range(BaseLetters)

Compose(s) ==
    LET kept == SelectSeq([i \in 1..Len(s) |-> i], LAMBDA i : ~Combines(s, i))
    IN [k \in 1..Len(kept) |->
          IF kept[k] < Len(s) /\ Combines(s, kept[k] + 1)
          THEN AccentedLetters[IndexIn(BaseLetters, s[kept[k]])]
          ELSE s[kept[k]]]

\* unicodedata.normalize('NFC', s)
NFC(s) == Compose(NFD(s))

\* str.lower() of capital sigma: final form after a cased letter and not
\* before one, case-ignorable characters skipped on both sides
RECURSIVE CasedBefore(_, _)
CasedBefore(s, j) ==
    IF j < 1 THEN FALSE
    ELSE IF IsCaseIgnorable(s[j]) THEN CasedBefore(s, j - 1)
    ELSE IsCased(s[j])

RECURSIVE CasedAfter(_, _)
CasedAfter(s, j) ==
    IF j > Len(s) THEN FALSE
    ELSE IF IsCaseIgnorable(s[j]) THEN CasedAfter(s, j + 1)
    ELSE IsCased(s[j])

LowerChar(s, i) ==
    IF s[i] = "Σ"
    THEN IF CasedBefore(s, i - 1) /\ ~CasedAfter(s, i + 1) THEN "ς" ELSE "σ"
    ELSE IF s[i] \in Range(UpperLetters)
         THEN LowerLetters[IndexIn(UpperLetters, s[i])]
         ELSE IF s[i] \in Range(LatinUpper)
              THEN LatinLower[IndexIn(LatinUpper, s[i])]
              ELSE s[i]

\* str.lower()
Lower(s) == [i \in 1..Len(s) |-> LowerChar(s, i)]

----------------------------------------------------------------------------
(* greek_text.py : GreekTextProcessor *)

normalize_unicode(text) == IF text = <<>> THEN <<>> ELSE NFC(NFD(text))

_handle_final_sigma(text) == ReplaceChar(text, "ς", "σ")

\* mutant: the marks are filtered before the text is decomposed, and the
\* result is left decomposed
remove_accents_FilterComposed(text) ==
    IF text = <<>> THEN <<>>
    ELSE NFD(_handle_final_sigma(SelectSeq(text, LAMBDA c : ~IsMn(c))))

remove_accents(text) ==
    IF text = <<>> THEN <<>>
    ELSE NFC(_handle_final_sigma(SelectSeq(NFD(text), LAMBDA c : ~IsMn(c))))

----------------------------------------------------------------------------
(* greek_conjugation_generator.py : normalisation and phonology helpers *)

normalize_lemma(text) ==
    IF text = <<>> THEN <<>>
    ELSE ReplaceChar(remove_accents(Lower(Strip(normalize_unicode(text)))), "ς", "σ")

\* mutant: the suffix -μαι is tried before -ομαι
derive_stems_fallback_ShortSuffixFirst(lem) ==
    LET base == IF EndsWith(lem, <<"μ","α","ι">>) THEN DropLast(lem, 3)
                ELSE IF EndsWith(lem, <<"ο","μ","α","ι">>) THEN DropLast(lem, 4)
                ELSE IF EndsWith(lem, <<"ώ">>) THEN DropLast(lem, 1)
                ELSE IF EndsWith(lem, <<"ω">>) THEN DropLast(lem, 1)
                ELSE lem
    IN [imperfective |-> base, perfective_active |-> base, perfective_passive |-> base]

derive_stems_fallback(lem) ==
    LET base == IF EndsWith(lem, <<"ο","μ","α","ι">>) THEN DropLast(lem, 4)
                ELSE IF EndsWith(lem, <<"μ","α","ι">>) THEN DropLast(lem, 3)
                ELSE IF EndsWith(lem, <<"ώ">>) THEN DropLast(lem, 1)
                ELSE IF EndsWith(lem, <<"ω">>) THEN DropLast(lem, 1)
                ELSE lem
    IN [imperfective |-> base, perfective_active |-> base, perfective_passive |-> base]

\* VOWEL_RE = ^[αεηιουωάέήίόύώ]
VOWEL_RE == {"α","ε","η","ι","ο","υ","ω","ά","έ","ή","ί","ό","ύ","ώ"}

apply_augment(stem) ==
    IF stem = <<>> THEN stem
    ELSE IF Head(stem) \in VOWEL_RE THEN stem
    ELSE <<"ε">> \o stem

SigmaFollowers == Whitespace \cup {".", ",", ";", ":", "!", "?"}

\* re.sub(r"σ(?=$|\s|[.,;:!?])", "ς", text)
apply_final_sigma(text) ==
    IF text = <<>> THEN text
    ELSE [i \in 1..Len(text) |->
            IF text[i] = "σ" /\ (i = Len(text) \/ text[i + 1] \in SigmaFollowers)
            THEN "ς" ELSE text[i]]

\* mutant: the leading σ is dropped whatever the aorist_type
_adjust_aorist_ending_AnyType(e, ending) ==
    IF StartsWith(ending, <<"σ">>) THEN DropFirst(ending, 1) ELSE ending

_adjust_aorist_ending(e, ending) ==
    IF e.aorist_type = <<"sigmatic">> /\ StartsWith(ending, <<"σ">>)
    THEN DropFirst(ending, 1)
    ELSE ending

\* mutant: the marker of the ending is kept after a stem in τ
_adjust_passive_aorist_ending_KeepTheta(stem, ending) ==
    IF EndsWith(stem, <<"τ">>) /\ StartsWith(ending, <<"τ","η">>)
    THEN DropFirst(ending, 1)
    ELSE ending

_adjust_passive_aorist_ending(stem, ending) ==
    IF EndsWith(stem, <<"τ">>) /\ StartsWith(ending, <<"θ","η">>)
    THEN <<"τ","η">> \o DropFirst(ending, 2)
    ELSE IF EndsWith(stem, <<"τ">>) /\ StartsWith(ending, <<"τ","η">>)
    THEN DropFirst(ending, 1)
    ELSE ending

----------------------------------------------------------------------------
(* greek_conjugation_classes.py *)

_core_endings_group_a ==
  [ present |-> [
        active |->
          <<<<"ω">>, <<"ε","ι","ς">>, <<"ε","ι">>, <<"ο","υ","μ","ε">>, <<"ε","τ","ε">>, <<"ο","υ","ν">>>>,
        passive |->
          <<<<"ο","μ","α","ι">>, <<"ε","σ","α","ι">>, <<"ε","τ","α","ι">>, <<"ο","μ","α","σ","τ","ε">>, <<"ε","σ","τ","ε">>, <<"ο","ν","τ","α","ι">>>> ],
    imperfect |-> [
        active |->
          <<<<"α">>, <<"ε","ς">>, <<"ε">>, <<"α","μ","ε">>, <<"α","τ","ε">>, <<"α","ν">>>>,
        passive |->
          <<<<"ο","μ","ο","υ","ν">>, <<"ο","σ","ο","υ","ν">>, <<"ο","τ","α","ν">>, <<"ο","μ","α","σ","τ","α","ν">>, <<"ο","σ","α","σ","τ","α","ν">>, <<"ο","ν","τ","α","ν">>>> ],
    aorist |-> [
        active |->
          <<<<"σ","α">>, <<"σ","ε","ς">>, <<"σ","ε">>, <<"σ","α","μ","ε">>, <<"σ","α","τ","ε">>, <<"σ","α","ν">>>>,
        passive |->
          <<<<"θ","η","κ","α">>, <<"θ","η","κ","ε","ς">>, <<"θ","η","κ","ε">>, <<"θ","η","κ","α","μ","ε">>, <<"θ","η","κ","α","τ","ε">>, <<"θ","η","κ","α","ν">>>> ],
    future |-> [
        active |->
          <<<<"ω">>, <<"ε","ι","ς">>, <<"ε","ι">>, <<"ο","υ","μ","ε">>, <<"ε","τ","ε">>, <<"ο","υ","ν">>>>,
        passive |->
          <<<<"ω">>, <<"ε","ι","ς">>, <<"ε","ι">>, <<"ο","υ","μ","ε">>, <<"ε","τ","ε">>, <<"ο","υ","ν">>>> ] ]

_core_endings_group_b1 ==
  [ present |-> [
        active |->
          <<<<"ω">>, <<"α","ς">>, <<"α">>, <<"α","μ","ε">>, <<"α","τ","ε">>, <<"ο","υ","ν">>>>,
        passive |->
          <<<<"ι","ε","μ","α","ι">>, <<"ι","ε","σ","α","ι">>, <<"ι","ε","τ","α","ι">>, <<"ι","ο","μ","α","σ","τ","ε">>, <<"ι","ε","σ","τ","ε">>, <<"ι","ο","υ","ν","τ","α","ι">>>> ],
    imperfect |-> [
        active |->
          <<<<"α","γ","α">>, <<"α","γ","ε","ς">>, <<"α","γ","ε">>, <<"α","γ","α","μ","ε">>, <<"α","γ","α","τ","ε">>, <<"α","γ","α","ν">>>>,
        passive |->
          <<<<"ι","ο","μ","ο","υ","ν">>, <<"ι","ο","σ","ο","υ","ν">>, <<"ι","ο","τ","α","ν">>, <<"ι","ο","μ","α","σ","τ","α","ν">>, <<"ι","ο","σ","α","σ","τ","α","ν">>, <<"ι","ο","ν","τ","α","ν">>>> ],
    aorist |-> [
        active |->
          <<<<"η","σ","α">>, <<"η","σ","ε","ς">>, <<"η","σ","ε">>, <<"η","σ","α","μ","ε">>, <<"η","σ","α","τ","ε">>, <<"η","σ","α","ν">>>>,
        passive |->
          <<<<"η","θ","η","κ","α">>, <<"η","θ","η","κ","ε","ς">>, <<"η","θ","η","κ","ε">>, <<"η","θ","η","κ","α","μ","ε">>, <<"η","θ","η","κ","α","τ","ε">>, <<"η","θ","η","κ","α","ν">>>> ],
    future |-> [
        active |->
          <<<<"ω">>, <<"α","ς">>, <<"α">>, <<"α","μ","ε">>, <<"α","τ","ε">>, <<"ο","υ","ν">>>>,
        passive |->
          <<<<"ω">>, <<"ε","ι","ς">>, <<"ε","ι">>, <<"ο","υ","μ","ε">>, <<"ε","τ","ε">>, <<"ο","υ","ν">>>> ] ]

_core_endings_group_b2 ==
  [ present |-> [
        active |->
          <<<<"ω">>, <<"ε","ι","ς">>, <<"ε","ι">>, <<"ο","υ","μ","ε">>, <<"ε","τ","ε">>, <<"ο","υ","ν">>>>,
        passive |->
          <<<<"ο","υ","μ","α","ι">>, <<"ε","ι","σ","α","ι">>, <<"ε","ι","τ","α","ι">>, <<"ο","υ","μ","α","σ","τ","ε">>, <<"ε","ι","σ","τ","ε">>, <<"ο","υ","ν","τ","α","ι">>>> ],
    imperfect |-> [
        active |->
          <<<<"ο","υ","σ","α">>, <<"ο","υ","σ","ε","ς">>, <<"ο","υ","σ","ε">>, <<"ο","υ","σ","α","μ","ε">>, <<"ο","υ","σ","α","τ","ε">>, <<"ο","υ","σ","α","ν">>>>,
        passive |->
          <<<<"ο","υ","μ","ο","υ","ν">>, <<"ο","υ","σ","ο","υ","ν">>, <<"ο","υ","τ","α","ν">>, <<"ο","υ","μ","α","σ","τ","α","ν">>, <<"ο","υ","σ","α","σ","τ","α","ν">>, <<"ο","υ","ν","τ","α","ν">>>> ],
    aorist |-> [
        active |->
          <<<<"η","σ","α">>, <<"η","σ","ε","ς">>, <<"η","σ","ε">>, <<"η","σ","α","μ","ε">>, <<"η","σ","α","τ","ε">>, <<"η","σ","α","ν">>>>,
        passive |->
          <<<<"η","θ","η","κ","α">>, <<"η","θ","η","κ","ε","ς">>, <<"η","θ","η","κ","ε">>, <<"η","θ","η","κ","α","μ","ε">>, <<"η","θ","η","κ","α","τ","ε">>, <<"η","θ","η","κ","α","ν">>>> ],
    future |-> [
        active |->
          <<<<"ω">>, <<"ε","ι","ς">>, <<"ε","ι">>, <<"ο","υ","μ","ε">>, <<"ε","τ","ε">>, <<"ο","υ","ν">>>>,
        passive |->
          <<<<"ω">>, <<"ε","ι","ς">>, <<"ε","ι">>, <<"ο","υ","μ","ε">>, <<"ε","τ","ε">>, <<"ο","υ","ν">>>> ] ]

\* the description strings are shortened to their group name
CONJUGATION_CLASSES ==
    [ A  |-> [class_id |-> "A",  description |-> "Group A",
              endings |-> _core_endings_group_a,  use_augment |-> TRUE],
      B1 |-> [class_id |-> "B1", description |-> "Group B1",
              endings |-> _core_endings_group_b1, use_augment |-> TRUE],
      B2 |-> [class_id |-> "B2", description |-> "Group B2",
              endings |-> _core_endings_group_b2, use_augment |-> TRUE] ]

\* iteration order of the endings dicts (insertion order of the literals)
TenseOrder == <<"present", "imperfect", "aorist", "future">>

VoiceOrder == <<"active", "passive">>

\* mutant: an unknown id falls back to class A instead of raising
get_conjugation_class_DefaultA(class_id) ==
    IF class_id \notin DOMAIN CONJUGATION_CLASSES
    THEN [raised |-> FALSE, value |-> CONJUGATION_CLASSES["A"]]
    ELSE [raised |-> FALSE, value |-> CONJUGATION_CLASSES[class_id]]

get_conjugation_class(class_id) ==
    IF class_id \notin DOMAIN CONJUGATION_CLASSES
    THEN [raised |-> TRUE, error |-> "ValueError: Unknown conjugation class"]
    ELSE [raised |-> FALSE, value |-> CONJUGATION_CLASSES[class_id]]

----------------------------------------------------------------------------
(* greek_conjugation_generator.py : build_forms *)

\* mutant: the plural slots listed before the singular ones
PERSON_NUMBER_PluralFirst ==
    << <<"1st", "plural">>,   <<"2nd", "plural">>,   <<"3rd", "plural">>,
       <<"1st", "singular">>, <<"2nd", "singular">>, <<"3rd", "singular">> >>

PERSON_NUMBER ==
    << <<"1st", "singular">>, <<"2nd", "singular">>, <<"3rd", "singular">>,
       <<"1st", "plural">>,   <<"2nd", "plural">>,   <<"3rd", "plural">> >>

\* VerbLexiconEntry properties: self.stems.get(slot, "")
StemOf(e, slot) == IF slot \in DOMAIN e.stems THEN e.stems[slot] ELSE <<>>

StemSlots == {"imperfective", "perfective_active", "perfective_passive"}

\* dict.setdefault over every item of the fallback: a key already in the
\* dict keeps its value
SetDefaultAll(d, fallback) ==
    [k \in DOMAIN d \cup DOMAIN fallback |-> IF k \in DOMAIN d THEN d[k] ELSE fallback[k]]

\* lines 145-153
ResolveStems(e) ==
    LET stems == [k \in StemSlots |-> StemOf(e, k)]
    IN IF \E k \in StemSlots : stems[k] = <<>>
       THEN SetDefaultAll(stems, derive_stems_fallback(e.lemma))
       ELSE stems

\* mutant: the class default is used whatever the entry says
ResolveAugment_ClassDefault(e, class) == class.use_augment

\* line 155
ResolveAugment(e, class) ==
    IF e.use_augment # <<>> THEN e.use_augment[1] ELSE class.use_augment

Min(a, b) == IF a < b THEN a ELSE b

\* mutant: the passive voice of aorist and future takes the active stem
SelectStem_ActiveForPassive(stems, tense, voice) ==
    IF tense \in {"present", "imperfect"} THEN stems["imperfective"]
    ELSE stems["perfective_active"]

\* lines 161-168
SelectStem(stems, tense, voice) ==
    IF tense \in {"present", "imperfect"} THEN stems["imperfective"]
    ELSE IF tense \in {"aorist", "future"}
         THEN IF voice = "passive" THEN stems["perfective_passive"]
              ELSE stems["perfective_active"]
    ELSE stems["imperfective"]

\* lines 170-187: the surface string of one slot
SurfaceForm(e, stems, use_augment, tense, voice, ending) ==
    LET stem == SelectStem(stems, tense, voice)
        e1 == IF tense = "aorist" /\ voice = "active"
              THEN _adjust_aorist_ending(e, ending) ELSE ending
        adjusted_ending == IF tense = "aorist" /\ voice = "passive"
                           THEN _adjust_passive_aorist_ending(stem, e1) ELSE e1
        stem_for_form == IF /\ tense = "aorist" /\ voice = "passive"
                            /\ EndsWith(stem, <<"τ">>)
                            /\ StartsWith(adjusted_ending, <<"τ","η">>)
                         THEN DropLast(stem, 1) ELSE stem
        f1 == IF tense \in {"imperfect", "aorist"} /\ use_augment
              THEN apply_augment(stem_for_form) \o adjusted_ending
              ELSE stem_for_form \o adjusted_ending
        f2 == IF tense = "future" THEN <<"θ","α"," ">> \o f1 ELSE f1
    IN apply_final_sigma(f2)

\* lines 188-203: the dict appended for one slot
FormDict(e, stems, use_augment, tense, voice, pn, ending) ==
    [ tense |-> tense, mood |-> "indicative", voice |-> voice,
      person |-> pn[1], number |-> pn[2],
      form |-> SurfaceForm(e, stems, use_augment, tense, voice, ending),
      morphology |-> [ class_id |-> e.class_id, stems |-> stems,
                       aorist_type |-> e.aorist_type, use_augment |-> use_augment ] ]

\* zip(PERSON_NUMBER, endings)
ZipSlots(e, stems, use_augment, tense, voice, endings) ==
    [i \in 1..Min(Len(PERSON_NUMBER), Len(endings)) |->
        FormDict(e, stems, use_augment, tense, voice, PERSON_NUMBER[i], endings[i])]

build_forms(e) ==
    LET cc == get_conjugation_class(e.class_id)
    IN IF cc.raised THEN [raised |-> TRUE, error |-> cc.error, forms |-> <<>>]
       ELSE LET class == cc.value
                stems == ResolveStems(e)
                use_augment == ResolveAugment(e, class)
            IN [ raised |-> FALSE, error |-> "",
                 forms |-> JoinAll([t \in 1..Len(TenseOrder) |->
                             JoinAll([v \in 1..Len(VoiceOrder) |->
                               ZipSlots(e, stems, use_augment, TenseOrder[t], VoiceOrder[v],
                                        class.endings[TenseOrder[t]][VoiceOrder[v]])])]) ]

----------------------------------------------------------------------------
(* greek_conjugation_generator.py : overrides, loaders, entry point *)

None == <<>>

Some(v) == <<v>>

\* dict.get(key) -> Optional
Get(d, k) == IF k \in DOMAIN d THEN Some(d[k]) ELSE None

\* dict.get(key, default)
GetOr(d, k, default) == IF k \in DOMAIN d THEN d[k] ELSE default

\* the en dash U+2013 as one character
EnDash == "U+2013"

\* mutant: the number of the slot is not compared
Replacement_AnyNumber(irr, item) ==
    IF item.tense = "aorist" /\ item.person = "1st"
    THEN IF item.voice = "active" THEN Get(irr, "aorist_active")
         ELSE IF item.voice = "passive" THEN Get(irr, "aorist_passive")
         ELSE None
    ELSE None

\* lines 211-218: overrides.get(key) for the slot of one form
Replacement(irr, item) ==
    IF item.tense = "aorist" /\ item.person = "1st" /\ item.number = "singular"
    THEN IF item.voice = "active" THEN Get(irr, "aorist_active")
         ELSE IF item.voice = "passive" THEN Get(irr, "aorist_passive")
         ELSE None
    ELSE None

\* mutant: only the en dash is taken as the placeholder
IsRealReplacement_EnDashOnly(r) == r # None /\ r[1] # <<>> /\ r[1] # <<EnDash>>

\* line 219: replacement and replacement != en dash and replacement != hyphen
IsRealReplacement(r) == r # None /\ r[1] # <<>> /\ r[1] # <<EnDash>> /\ r[1] # <<"-">>

OverrideItem(irr, item) ==
    IF IsRealReplacement(Replacement(irr, item))
    THEN [item EXCEPT !.form = Replacement(irr, item)[1],
                      !.morphology = ("override" :> "philologist_irregulars") @@ @]
    ELSE item

\* irr is Optional: None, or Some(record of the irregulars file)
apply_irregular_overrides(fs, irr) ==
    IF irr = None \/ DOMAIN irr[1] = {} THEN fs
    ELSE [i \in 1..Len(fs) |-> OverrideItem(irr[1], fs[i])]

VerbLexiconEntry(lem, class_id, stems, aorist_type, use_augment, notes, provenance) ==
    [ lemma |-> lem, class_id |-> class_id, stems |-> stems, aorist_type |-> aorist_type,
      use_augment |-> use_augment, notes |-> notes, provenance |-> provenance ]

EmptyDict == [k \in {} |-> <<>>]

\* dict[key] = value
Put(d, k, v) == [x \in DOMAIN d \cup {k} |-> IF x = k THEN v ELSE d[x]]

\* lines 74-82
EntryOfItem(item) ==
    VerbLexiconEntry(GetOr(item, "lemma", <<>>), GetOr(item, "class_id", ""),
                     GetOr(item, "stems", EmptyDict), Get(item, "aorist_type"),
                     Get(item, "use_augment"), Get(item, "notes"), Get(item, "provenance"))

RECURSIVE LexiconLoop(_, _)
LexiconLoop(items, entries) ==
    IF items = <<>> THEN entries
    ELSE LexiconLoop(Tail(items),
                     Put(entries, normalize_lemma(EntryOfItem(Head(items)).lemma),
                         EntryOfItem(Head(items))))

load_lexicon(data) == LexiconLoop(GetOr(data, "entries", <<>>), EmptyDict)

\* mutant: a record whose key is empty is stored like any other
RECURSIVE IrregularsLoop_KeepEmptyKey(_, _)
IrregularsLoop_KeepEmptyKey(items, irrs) ==
    IF items = <<>> THEN irrs
    ELSE IrregularsLoop_KeepEmptyKey(Tail(items),
             Put(irrs, normalize_lemma(GetOr(Head(items), "lemma", <<>>)), Head(items)))

RECURSIVE IrregularsLoop(_, _)
IrregularsLoop(items, irrs) ==
    IF items = <<>> THEN irrs
    ELSE LET key == normalize_lemma(GetOr(Head(items), "lemma", <<>>))
         IN IrregularsLoop(Tail(items),
                           IF key # <<>> THEN Put(irrs, key, Head(items)) ELSE irrs)

load_irregulars(data) == IrregularsLoop(GetOr(data, "entries", <<>>), EmptyDict)

\* A source file: its text parses as JSON or not, and value is what it parses
\* to.  A JSON object is a dict; a value of another type is written
\* [not_object |-> its type].
IsObject(v) == "not_object" \notin DOMAIN v

\* a call that raised returns nothing, a call that returned gives its map
Raised(error) == [raised |-> TRUE, error |-> error, returned |-> None]

Returned(map) == [raised |-> FALSE, error |-> "", returned |-> Some(map)]

\* json.loads(Path(path).read_text(...)), data.get and item.get: the text
\* that does not parse raises JSONDecodeError, a value or an item without
\* .get raises AttributeError in the middle of the loop, and the local dict
\* filled so far is dropped with the frame
SourceError(file) ==
    IF ~file.parses THEN "JSONDecodeError"
    ELSE IF ~IsObject(file.value) THEN "AttributeError"
    ELSE IF \E i \in 1..Len(GetOr(file.value, "entries", <<>>)) :
               ~IsObject(GetOr(file.value, "entries", <<>>)[i])
         THEN "AttributeError"
         ELSE ""

\* load_lexicon(path)
load_lexicon_path(file) ==
    IF SourceError(file) # "" THEN Raised(SourceError(file))
    ELSE Returned(load_lexicon(file.value))

\* load_irregulars(path)
load_irregulars_path(file) ==
    IF SourceError(file) # "" THEN Raised(SourceError(file))
    ELSE Returned(load_irregulars(file.value))

\* mutant: the fallback entry names a class that is not registered
FallbackEntry_ClassB(lem) ==
    VerbLexiconEntry(lem, "B", derive_stems_fallback(lem), None, None,
                     Some("fallback_lexicon"), None)

\* lines 233-238
FallbackEntry(lem) ==
    VerbLexiconEntry(lem, "A", derive_stems_fallback(lem), None, None,
                     Some("fallback_lexicon"), None)

\* mutant: the lexicon is looked up with the lemma as given
generate_conjugations_RawLookup(lem, lex, irrs) ==
    LET key == normalize_lemma(lem)
        e == IF lem \in DOMAIN lex THEN lex[lem] ELSE FallbackEntry(lem)
        b == build_forms(e)
        irr == IF DOMAIN irrs # {} THEN Get(irrs, key) ELSE None
    IN [ lemma |-> lem, normalized |-> key, found |-> lem \in DOMAIN lex, entry |-> e,
         raised |-> b.raised, built |-> b.forms,
         irregular |-> IF b.raised THEN None ELSE irr,
         forms |-> IF b.raised THEN <<>> ELSE apply_irregular_overrides(b.forms, irr) ]

generate_conjugations(lem, lex, irrs) ==
    LET key == normalize_lemma(lem)
        e == IF key \in DOMAIN lex THEN lex[key] ELSE FallbackEntry(lem)
        b == build_forms(e)
        irr == IF DOMAIN irrs # {} THEN Get(irrs, key) ELSE None
    IN [ lemma |-> lem, normalized |-> key, found |-> key \in DOMAIN lex, entry |-> e,
         raised |-> b.raised, built |-> b.forms,
         irregular |-> IF b.raised THEN None ELSE irr,
         forms |-> IF b.raised THEN <<>> ELSE apply_irregular_overrides(b.forms, irr) ]

----------------------------------------------------------------------------
(* greek_text.py : comparison, transliteration, validation, similarity *)

\* a Cyrillic letter, outside every block the validator allows
CyrillicZhe == "U+0436"

\* the characters of the model with a code point in 0x0370..0x03FF
GREEK_BASIC_RANGE == Range(UpperLetters) \cup Range(LowerLetters) \cup {"ς"}

\* 0x1F00..0x1FFF: the model has no polytonic character
GREEK_EXTENDED_RANGE == {}

\* the characters of the model with a code point in 0x0020..0x007F
BasicLatin == Range(LatinUpper) \cup Range(LatinLower) \cup {" ", "!", "1"}

\* unicodedata.category(c) starts with 'P'
IsPunctuation(c) == c \in {"!", EnDash}

\* str.isspace()
IsSpace(c) == c \in Whitespace

Max(a, b) == IF a > b THEN a ELSE b

\* mutant: the texts are compared in the case they come in
compare_accent_insensitive_KeepCase(text1, text2) ==
    IF text1 = <<>> /\ text2 = <<>> THEN TRUE
    ELSE IF text1 = <<>> \/ text2 = <<>> THEN FALSE
    ELSE remove_accents(normalize_unicode(Strip(text1)))
           = remove_accents(normalize_unicode(Strip(text2)))

\* mutant: the second text keeps its case
compare_accent_insensitive_RawSecond(text1, text2) ==
    IF text1 = <<>> /\ text2 = <<>> THEN TRUE
    ELSE IF text1 = <<>> \/ text2 = <<>> THEN FALSE
    ELSE remove_accents(normalize_unicode(Strip(Lower(text1))))
           = remove_accents(normalize_unicode(Strip(text2)))

compare_accent_insensitive(text1, text2) ==
    IF text1 = <<>> /\ text2 = <<>> THEN TRUE
    ELSE IF text1 = <<>> \/ text2 = <<>> THEN FALSE
    ELSE remove_accents(normalize_unicode(Strip(Lower(text1))))
           = remove_accents(normalize_unicode(Strip(Lower(text2))))

\* the dict literals, one <<key, value>> pair per item, in insertion order
TRANSLITERATION_MAP ==
    << <<<<"a">>, <<"α">>>>, <<<<"e">>, <<"ε">>>>, <<<<"i">>, <<"ι">>>>,
       <<<<"o">>, <<"ο">>>>, <<<<"u">>, <<"υ">>>>, <<<<"A">>, <<"Α">>>>,
       <<<<"E">>, <<"Ε">>>>, <<<<"I">>, <<"Ι">>>>, <<<<"O">>, <<"Ο">>>>,
       <<<<"U">>, <<"Υ">>>>, <<<<"a","i">>, <<"α","ι">>>>, <<<<"a","u">>, <<"α","υ">>>>,
       <<<<"e","i">>, <<"ε","ι">>>>, <<<<"e","u">>, <<"ε","υ">>>>,
       <<<<"o","i">>, <<"ο","ι">>>>, <<<<"o","u">>, <<"ο","υ">>>>,
       <<<<"u","i">>, <<"υ","ι">>>>, <<<<"A","i">>, <<"Α","ι">>>>,
       <<<<"A","u">>, <<"Α","υ">>>>, <<<<"E","i">>, <<"Ε","ι">>>>,
       <<<<"E","u">>, <<"Ε","υ">>>>, <<<<"O","i">>, <<"Ο","ι">>>>,
       <<<<"O","u">>, <<"Ο","υ">>>>, <<<<"U","i">>, <<"Υ","ι">>>>, <<<<"b">>, <<"β">>>>,
       <<<<"g">>, <<"γ">>>>, <<<<"d">>, <<"δ">>>>, <<<<"z">>, <<"ζ">>>>,
       <<<<"t","h">>, <<"θ">>>>, <<<<"k">>, <<"κ">>>>, <<<<"l">>, <<"λ">>>>,
       <<<<"m">>, <<"μ">>>>, <<<<"n">>, <<"ν">>>>, <<<<"x">>, <<"ξ">>>>,
       <<<<"p">>, <<"π">>>>, <<<<"r">>, <<"ρ">>>>, <<<<"s">>, <<"σ">>>>,
       <<<<"t">>, <<"τ">>>>, <<<<"f">>, <<"φ">>>>, <<<<"c","h">>, <<"χ">>>>,
       <<<<"p","s">>, <<"ψ">>>>, <<<<"w">>, <<"ω">>>>, <<<<"B">>, <<"Β">>>>,
       <<<<"G">>, <<"Γ">>>>, <<<<"D">>, <<"Δ">>>>, <<<<"Z">>, <<"Ζ">>>>,
       <<<<"T","h">>, <<"Θ">>>>, <<<<"K">>, <<"Κ">>>>, <<<<"L">>, <<"Λ">>>>,
       <<<<"M">>, <<"Μ">>>>, <<<<"N">>, <<"Ν">>>>, <<<<"X">>, <<"Ξ">>>>,
       <<<<"P">>, <<"Π">>>>, <<<<"R">>, <<"Ρ">>>>, <<<<"S">>, <<"Σ">>>>,
       <<<<"T">>, <<"Τ">>>>, <<<<"F">>, <<"Φ">>>>, <<<<"C","h">>, <<"Χ">>>>,
       <<<<"P","s">>, <<"Ψ">>>>, <<<<"W">>, <<"Ω">>>>, <<<<"h">>, <<"η">>>>,
       <<<<"H">>, <<"Η">>>>, <<<<"y">>, <<"υ">>>>, <<<<"Y">>, <<"Υ">>>>,
       <<<<"c">>, <<"κ">>>>, <<<<"C">>, <<"Κ">>>>, <<<<"j">>, <<"ι">>>>,
       <<<<"J">>, <<"Ι">>>>, <<<<"v">>, <<"β">>>>, <<<<"V">>, <<"Β">>>>,
       <<<<"q">>, <<"κ">>>>, <<<<"Q">>, <<"Κ">>>> >>

\* mutant: eta is written with the letter that iota uses
REVERSE_TRANSLITERATION_EtaAsI ==
    << <<<<"α">>, <<"a">>>>, <<<<"β">>, <<"b">>>>, <<<<"γ">>, <<"g">>>>,
       <<<<"δ">>, <<"d">>>>, <<<<"ε">>, <<"e">>>>, <<<<"ζ">>, <<"z">>>>,
       <<<<"η">>, <<"i">>>>, <<<<"θ">>, <<"t","h">>>>, <<<<"ι">>, <<"i">>>>,
       <<<<"κ">>, <<"k">>>>, <<<<"λ">>, <<"l">>>>, <<<<"μ">>, <<"m">>>>,
       <<<<"ν">>, <<"n">>>>, <<<<"ξ">>, <<"x">>>>, <<<<"ο">>, <<"o">>>>,
       <<<<"π">>, <<"p">>>>, <<<<"ρ">>, <<"r">>>>, <<<<"σ">>, <<"s">>>>,
       <<<<"ς">>, <<"s">>>>, <<<<"τ">>, <<"t">>>>, <<<<"υ">>, <<"u">>>>,
       <<<<"φ">>, <<"f">>>>, <<<<"χ">>, <<"c","h">>>>, <<<<"ψ">>, <<"p","s">>>>,
       <<<<"ω">>, <<"w">>>>, <<<<"Α">>, <<"A">>>>, <<<<"Β">>, <<"B">>>>,
       <<<<"Γ">>, <<"G">>>>, <<<<"Δ">>, <<"D">>>>, <<<<"Ε">>, <<"E">>>>,
       <<<<"Ζ">>, <<"Z">>>>, <<<<"Η">>, <<"H">>>>, <<<<"Θ">>, <<"T","h">>>>,
       <<<<"Ι">>, <<"I">>>>, <<<<"Κ">>, <<"K">>>>, <<<<"Λ">>, <<"L">>>>,
       <<<<"Μ">>, <<"M">>>>, <<<<"Ν">>, <<"N">>>>, <<<<"Ξ">>, <<"X">>>>,
       <<<<"Ο">>, <<"O">>>>, <<<<"Π">>, <<"P">>>>, <<<<"Ρ">>, <<"R">>>>,
       <<<<"Σ">>, <<"S">>>>, <<<<"Τ">>, <<"T">>>>, <<<<"Υ">>, <<"U">>>>,
       <<<<"Φ">>, <<"F">>>>, <<<<"Χ">>, <<"C","h">>>>, <<<<"Ψ">>, <<"P","s">>>>,
       <<<<"Ω">>, <<"W">>>> >>

REVERSE_TRANSLITERATION ==
    << <<<<"α">>, <<"a">>>>, <<<<"β">>, <<"b">>>>, <<<<"γ">>, <<"g">>>>,
       <<<<"δ">>, <<"d">>>>, <<<<"ε">>, <<"e">>>>, <<<<"ζ">>, <<"z">>>>,
       <<<<"η">>, <<"h">>>>, <<<<"θ">>, <<"t","h">>>>, <<<<"ι">>, <<"i">>>>,
       <<<<"κ">>, <<"k">>>>, <<<<"λ">>, <<"l">>>>, <<<<"μ">>, <<"m">>>>,
       <<<<"ν">>, <<"n">>>>, <<<<"ξ">>, <<"x">>>>, <<<<"ο">>, <<"o">>>>,
       <<<<"π">>, <<"p">>>>, <<<<"ρ">>, <<"r">>>>, <<<<"σ">>, <<"s">>>>,
       <<<<"ς">>, <<"s">>>>, <<<<"τ">>, <<"t">>>>, <<<<"υ">>, <<"u">>>>,
       <<<<"φ">>, <<"f">>>>, <<<<"χ">>, <<"c","h">>>>, <<<<"ψ">>, <<"p","s">>>>,
       <<<<"ω">>, <<"w">>>>, <<<<"Α">>, <<"A">>>>, <<<<"Β">>, <<"B">>>>,
       <<<<"Γ">>, <<"G">>>>, <<<<"Δ">>, <<"D">>>>, <<<<"Ε">>, <<"E">>>>,
       <<<<"Ζ">>, <<"Z">>>>, <<<<"Η">>, <<"H">>>>, <<<<"Θ">>, <<"T","h">>>>,
       <<<<"Ι">>, <<"I">>>>, <<<<"Κ">>, <<"K">>>>, <<<<"Λ">>, <<"L">>>>,
       <<<<"Μ">>, <<"M">>>>, <<<<"Ν">>, <<"N">>>>, <<<<"Ξ">>, <<"X">>>>,
       <<<<"Ο">>, <<"O">>>>, <<<<"Π">>, <<"P">>>>, <<<<"Ρ">>, <<"R">>>>,
       <<<<"Σ">>, <<"S">>>>, <<<<"Τ">>, <<"T">>>>, <<<<"Υ">>, <<"U">>>>,
       <<<<"Φ">>, <<"F">>>>, <<<<"Χ">>, <<"C","h">>>>, <<<<"Ψ">>, <<"P","s">>>>,
       <<<<"Ω">>, <<"W">>>> >>

\* str.replace(old, new): non-overlapping occurrences, leftmost first
RECURSIVE Replace(_, _, _)
Replace(s, old, new) ==
    IF Len(s) < Len(old) THEN s
    ELSE IF StartsWith(s, old) THEN new \o Replace(DropFirst(s, Len(old)), old, new)
    ELSE <<Head(s)>> \o Replace(Tail(s), old, new)

LongestKey(items) ==
    CHOOSE n \in {Len(items[i][1]) : i \in 1..Len(items)} :
        \A i \in 1..Len(items) : Len(items[i][1]) <= n

RECURSIVE ByKeyLength(_, _)
ByKeyLength(items, n) ==
    IF n = 0 THEN <<>>
    ELSE SelectSeq(items, LAMBDA kv : Len(kv[1]) = n) \o ByKeyLength(items, n - 1)

\* mutant: the mappings are applied in the order of the dict
sorted_mappings_InsertionOrder(items) == items

\* sorted(items, key=lambda x: len(x[0]), reverse=True); the sort is stable
sorted_mappings(items) == ByKeyLength(items, LongestKey(items))

\* for a, b in mappings: result = result.replace(a, b)
\* (the loop over the first half of the list, then over the second half; the
\* comparison makes TLC compute the first half before it starts the second)
RECURSIVE ReplaceEach(_, _)
ReplaceEach(result, mappings) ==
    IF mappings = <<>> THEN result
    ELSE IF Len(mappings) = 1 THEN Replace(result, mappings[1][1], mappings[1][2])
    ELSE LET half == Len(mappings) \div 2
             replaced == ReplaceEach(result, SubSeq(mappings, 1, half))
         IN IF replaced = result
            THEN ReplaceEach(result, SubSeq(mappings, half + 1, Len(mappings)))
            ELSE ReplaceEach(replaced, SubSeq(mappings, half + 1, Len(mappings)))

transliterate_to_greek(latin_text) ==
    IF latin_text = <<>> THEN <<>>
    ELSE ReplaceEach(latin_text, sorted_mappings(TRANSLITERATION_MAP))

transliterate_to_latin(greek_text) ==
    IF greek_text = <<>> THEN <<>>
    ELSE ReplaceEach(remove_accents(greek_text), sorted_mappings(REVERSE_TRANSLITERATION))

is_greek_text(text) ==
    \E i \in 1..Len(text) : text[i] \in GREEK_BASIC_RANGE \cup GREEK_EXTENDED_RANGE

\* the loop body of lines 260-280: is text[i] appended to invalid_chars?
IsAppended(text, i) ==
    /\ ~IsSpace(text[i])
    /\ text[i] \notin GREEK_BASIC_RANGE \cup GREEK_EXTENDED_RANGE
    /\ text[i] \notin BasicLatin
    /\ ~IsPunctuation(text[i])
    /\ \A j \in 1..(i - 1) : text[j] # text[i]

_find_invalid_characters(text) ==
    LET appended == SelectSeq([i \in 1..Len(text) |-> i], LAMBDA i : IsAppended(text, i))
    IN [k \in 1..Len(appended) |-> text[appended[k]]]

_has_latin_characters(text) ==
    \E i \in 1..Len(text) : text[i] \in Range(LatinUpper) \cup Range(LatinLower)

\* line 241: if char_count > 200
LongTextLimit == 200

MixedWarning == "Mixed Greek and Latin characters detected"

LongWarning == "Text is unusually long"

\* mutant: a text without Greek letters is reported as not valid
validate_greek_input_RequireGreek(text) ==
    IF text = <<>>
    THEN [ raised |-> FALSE, valid |-> FALSE, error |-> "Empty text", normalized |-> <<>>,
           has_greek |-> FALSE, character_count |-> 0 ]
    ELSE LET norm == normalize_unicode(Strip(text))
             char_count == Len(SelectSeq(norm, LAMBDA c : c # " "))
         IN [ raised |-> FALSE, valid |-> is_greek_text(norm), normalized |-> norm,
              has_greek |-> is_greek_text(norm), character_count |-> char_count,
              invalid_characters |-> _find_invalid_characters(norm),
              warnings |->
                (IF is_greek_text(norm) /\ _has_latin_characters(norm)
                 THEN <<MixedWarning>> ELSE <<>>)
                \o (IF char_count > LongTextLimit THEN <<LongWarning>> ELSE <<>>) ]

\* the body runs inside try/except Exception (lines 210-253), and none of the
\* str operations of the try block raises: the call always returns a dict
validate_greek_input(text) ==
    IF text = <<>>
    THEN [ raised |-> FALSE, valid |-> FALSE, error |-> "Empty text", normalized |-> <<>>,
           has_greek |-> FALSE, character_count |-> 0 ]
    ELSE LET norm == normalize_unicode(Strip(text))
             char_count == Len(SelectSeq(norm, LAMBDA c : c # " "))
         IN [ raised |-> FALSE, valid |-> TRUE, normalized |-> norm,
              has_greek |-> is_greek_text(norm), character_count |-> char_count,
              invalid_characters |-> _find_invalid_characters(norm),
              warnings |->
                (IF is_greek_text(norm) /\ _has_latin_characters(norm)
                 THEN <<MixedWarning>> ELSE <<>>)
                \o (IF char_count > LongTextLimit THEN <<LongWarning>> ELSE <<>>) ]

\* a float that is a quotient of two lengths, kept as the quotient
Ratio(n, d) == [num |-> n, den |-> d]

\* mutant: on a mismatch only the cell above is carried over
RECURSIVE LcsRow_AboveOnly(_, _, _, _)
LcsRow_AboveOnly(above, c, text2, row) ==
    IF Len(row) = Len(text2) + 1 THEN row
    ELSE LET j == Len(row)
         IN LcsRow_AboveOnly(above, c, text2,
                   Append(row, IF c = text2[j] THEN above[j] + 1 ELSE above[j + 1]))

\* row i of the DP table from row i-1: row[j + 1] is dp[i][j]
RECURSIVE LcsRow(_, _, _, _)
LcsRow(above, c, text2, row) ==
    IF Len(row) = Len(text2) + 1 THEN row
    ELSE LET j == Len(row)
         IN LcsRow(above, c, text2,
                   Append(row, IF c = text2[j] THEN above[j] + 1
                               ELSE Max(above[j + 1], row[j])))

RECURSIVE LcsTable(_, _, _)
LcsTable(text1, text2, above) ==
    IF text1 = <<>> THEN above
    ELSE LcsTable(Tail(text1), text2, LcsRow(above, Head(text1), text2, <<0>>))

_calculate_lcs_similarity(text1, text2) ==
    IF text1 = <<>> \/ text2 = <<>> THEN Ratio(0, 1)
    ELSE LET lcs_length == LcsTable(text1, text2, [j \in 1..(Len(text2) + 1) |-> 0])[Len(text2) + 1]
         IN Ratio(lcs_length, Max(Len(text1), Len(text2)))

\* mutant: no early return for texts that are equal once cleaned
get_similarity_score_NoExactMatch(text1, text2) ==
    IF text1 = <<>> /\ text2 = <<>> THEN Ratio(1, 1)
    ELSE IF text1 = <<>> \/ text2 = <<>> THEN Ratio(0, 1)
    ELSE _calculate_lcs_similarity(remove_accents(normalize_unicode(Strip(Lower(text1)))),
                                   remove_accents(normalize_unicode(Strip(Lower(text2)))))

get_similarity_score(text1, text2) ==
    IF text1 = <<>> /\ text2 = <<>> THEN Ratio(1, 1)
    ELSE IF text1 = <<>> \/ text2 = <<>> THEN Ratio(0, 1)
    ELSE LET clean1 == remove_accents(normalize_unicode(Strip(Lower(text1))))
             clean2 == remove_accents(normalize_unicode(Strip(Lower(text2))))
         IN IF clean1 = clean2 THEN Ratio(1, 1)
            ELSE _calculate_lcs_similarity(clean1, clean2)

\* f"{prefix}{target_text}": a hint is its fixed prefix and the target
Hint(prefix, target_text) == [prefix |-> prefix, target |-> target_text]

\* lines 339-363
suggest_corrections(input_text, target_text) ==
    IF input_text = <<>> \/ target_text = <<>> THEN <<>>
    ELSE (IF compare_accent_insensitive(input_text, target_text)
          THEN <<Hint("Check accents: ", target_text)>> ELSE <<>>)
         \o (IF remove_accents(Lower(input_text)) = remove_accents(Lower(target_text))
             THEN <<Hint("Check capitalization: ", target_text)>> ELSE <<>>)
         \o (IF compare_accent_insensitive(transliterate_to_greek(input_text), target_text)
             THEN <<Hint("Try Greek characters: ", target_text)>> ELSE <<>>)

----------------------------------------------------------------------------
(* routes/verbs.py : submit_answer *)

\* lines 165-174: the row created for a first answer.  ease_factor is kept
\* in hundredths, next_review in days after the time of the request
NewProgress ==
    [ attempts |-> 0, correct_attempts |-> 0, streak |-> 0, ease_factor |-> 250,
      interval_days |-> 1, next_review |-> None, common_mistakes |-> None ]

\* mutant: a wrong answer leaves the interval as it was
update_spaced_repetition_KeepInterval(progress, quality) ==
    IF quality < 3
    THEN [progress EXCEPT !.next_review = Some(progress.interval_days)]
    ELSE LET ease_factor == Min(progress.ease_factor + 10, 300)
             interval_days == IF progress.attempts = 1 THEN 1
                              ELSE IF progress.attempts = 2 THEN 6
                              ELSE (progress.interval_days * ease_factor) \div 100
         IN [progress EXCEPT !.ease_factor = ease_factor,
                             !.interval_days = interval_days,
                             !.next_review = Some(interval_days)]

\* lines 252-280
update_spaced_repetition(progress, quality) ==
    IF quality < 3
    THEN [progress EXCEPT !.interval_days = 1, !.next_review = Some(1)]
    ELSE LET ease_factor == IF quality = 4 THEN Min(progress.ease_factor + 10, 300)
                            ELSE IF quality = 5 THEN Min(progress.ease_factor + 15, 300)
                            ELSE progress.ease_factor
             interval_days == IF progress.attempts = 1 THEN 1
                              ELSE IF progress.attempts = 2 THEN 6
                              ELSE (progress.interval_days * ease_factor) \div 100
         IN [progress EXCEPT !.ease_factor = ease_factor,
                             !.interval_days = interval_days,
                             !.next_review = Some(interval_days)]

\* lines 130-211, for a conjugation_id that exists: rows is the state of the
\* three tables, data the JSON body of the request.  The comparison of the
\* server decides when there is an answer and a form, the flag of the request
\* otherwise (compare_greek_texts is compare_accent_insensitive); a wrong
\* answer is appended to the comma-separated common_mistakes
submit_answer(rows, data) ==
    LET user_answer == Strip(data.answer)
        form == rows.conjugation[1].form
        is_correct == IF user_answer # <<>> /\ form # <<>>
                      THEN compare_accent_insensitive(user_answer, form)
                      ELSE data.is_correct
        found == IF rows.progress = None THEN NewProgress ELSE rows.progress[1]
        counted == [found EXCEPT !.attempts = @ + 1]
        progress ==
            IF is_correct
            THEN update_spaced_repetition(
                     [counted EXCEPT !.correct_attempts = @ + 1, !.streak = @ + 1], 4)
            ELSE [update_spaced_repetition([counted EXCEPT !.streak = 0], 0)
                     EXCEPT !.common_mistakes =
                         IF @ # None /\ @[1] # <<>>
                         THEN Some(@[1] \o <<",">> \o user_answer)
                         ELSE Some(user_answer)]
        practice_session ==
            IF rows.practice_session # None /\ data.session_id = rows.practice_session[1].id
            THEN Some([rows.practice_session[1] EXCEPT
                          !.questions_attempted = @ + 1,
                          !.correct_answers = IF is_correct THEN @ + 1 ELSE @])
            ELSE rows.practice_session
    IN [ rows |-> [rows EXCEPT !.progress = Some(progress),
                               !.practice_session = practice_session],
         response |-> [ success |-> TRUE, correct |-> is_correct,
                        streak |-> progress.streak,
                        next_review |-> progress.next_review ] ]

----------------------------------------------------------------------------
(* Words used as inputs *)

Words ==
    [ GRAFO |-> <<"γ","ρ","ά","φ","ω">>,
      GRAFO_NFD |-> <<"γ","ρ","α",CombiningAcute,"φ","ω">>,
      GRAFO_UP |-> <<"Γ","Ρ","Ά","Φ","Ω"," ">>,
      ERXOMAI |-> <<"έ","ρ","χ","ο","μ","α","ι">>,
      EIMAI |-> <<"ε","ί","μ","α","ι">>,
      AGAPO |-> <<"α","γ","α","π","ώ">>,
      LYNO |-> <<"λ","ύ","ν","ω">>,
      LYNO_MARK |-> <<"λ","ύ","ν","ω"," ",CombiningAcute>>,
      LYNO_SPACE |-> <<"λ","ύ","ν","ω"," ">>,
      GRAFW_LATIN |-> <<"g","r","a","f","w">>,
      GRAF |-> <<"γ","ρ","ά","φ">>,
      GRAPS |-> <<"γ","ρ","ά","ψ">>,
      GRAFT |-> <<"γ","ρ","ά","φ","τ">>,
      AGAP |-> <<"α","γ","α","π">>,
      LYN |-> <<"λ","ύ","ν">>,
      LYS |-> <<"λ","ύ","σ">>,
      LYT |-> <<"λ","ύ","τ">>,
      EGRAPSA |-> <<"έ","γ","ρ","α","ψ","α">>,
      GRAFTHKA |-> <<"γ","ρ","ά","φ","τ","η","κ","α">>,
      ELYS |-> <<"έ","λ","υ","σ">>,
      GRAFO_PLAIN |-> <<"γ","ρ","α","φ","ω">>,
      LEO |-> <<"λ","έ","ω">>,
      GRAFE |-> <<"γ","ρ","ά","φ","ε">>,
      ODOS_UP |-> <<"Ο","Δ","Ο","Σ">>,
      GRAPHO_LATIN |-> <<"g","r","a","p","h","o">>,
      GRAFO_HELLO |-> <<"γ","ρ","ά","φ","ω"," ","h","i">> ]

----------------------------------------------------------------------------
(* Bounded inputs *)

\* longest entry list of a lexicon file
MaxEntries == 2

\* longest entry list of an irregulars file
MaxIrregulars == 1

\* calls of generate_conjugations in one run
MaxCalls == 2

StemChoices ==
    { [imperfective |-> Words.GRAF, perfective_active |-> Words.GRAPS, perfective_passive |-> Words.GRAFT],
      [imperfective |-> Words.AGAP, perfective_active |-> Words.AGAP, perfective_passive |-> Words.AGAP],
      [imperfective |-> Words.GRAF],
      [imperfective |-> <<>>, perfective_active |-> Words.GRAPS, perfective_passive |-> <<>>],
      EmptyDict }

\* entries handed to build_forms directly
EntryPool ==
    { VerbLexiconEntry(l, c, st, a, u, None, None) :
        l \in {Words.GRAFO, Words.ERXOMAI},
        c \in {"A", "B1", "B2", "", "C"},
        st \in StemChoices,
        a \in {None, Some("sigmatic"), Some("non-sigmatic")},
        u \in {None, Some(TRUE), Some(FALSE)} }

\* records of the irregulars file
IrregularItems ==
    << [lemma |-> Words.GRAFO, aorist_active |-> Words.EGRAPSA, aorist_passive |-> Words.GRAFTHKA,
        source |-> "philologist"],
       [lemma |-> Words.GRAFO_UP, aorist_active |-> <<EnDash>>, source |-> "philologist"],
       [lemma |-> Words.LYNO, aorist_active |-> Words.ELYS, aorist_passive |-> <<"-">>,
        source |-> "philologist"],
       [aorist_active |-> <<>>, aorist_passive |-> Words.GRAFTHKA, source |-> "philologist"] >>

\* items of the lexicon file
LexiconItems ==
    << [lemma |-> Words.GRAFO, class_id |-> "A", aorist_type |-> "sigmatic",
        stems |-> [imperfective |-> Words.GRAF, perfective_active |-> Words.GRAPS,
                   perfective_passive |-> Words.GRAFT]],
       [lemma |-> Words.GRAFO_UP, class_id |-> "A", use_augment |-> FALSE,
        stems |-> [imperfective |-> Words.GRAF]],
       [lemma |-> Words.AGAPO, class_id |-> "B1",
        stems |-> [imperfective |-> Words.AGAP, perfective_active |-> Words.AGAP,
                   perfective_passive |-> Words.AGAP]],
       [lemma |-> Words.LYNO, stems |-> [imperfective |-> Words.LYN, perfective_active |-> Words.LYS,
                                   perfective_passive |-> Words.LYT]] >>

\* lemma arguments of generate_conjugations
CallLemmas ==
    { Words.GRAFO, Words.GRAFO_NFD, Words.GRAFO_UP, Words.ERXOMAI, Words.EIMAI, Words.AGAPO, Words.LYNO, Words.LYNO_MARK, <<"ω">>, <<>> }

SeqsUpTo(S, n) == UNION { [1..k -> S] : k \in 0..n }

LexiconFiles == { [entries |-> [i \in 1..Len(ix) |-> LexiconItems[ix[i]]]] :
                    ix \in SeqsUpTo(1..Len(LexiconItems), MaxEntries) }

IrregularsFiles == { [entries |-> [i \in 1..Len(ix) |-> IrregularItems[ix[i]]]] :
                       ix \in SeqsUpTo(1..Len(IrregularItems), MaxIrregulars) }

\* irregular arguments of a direct apply_irregular_overrides call
IrregularArgs == {None, Some(EmptyDict)} \cup {Some(IrregularItems[i]) : i \in 1..Len(IrregularItems)}

\* calls of text functions in one run, each fed with the result of the one before
MaxChain == 3

\* longest Latin text handed to transliterate_to_greek
MaxLatinLen == 3

\* texts handed to the text functions
TextPool ==
    { <<>>, <<" ">>, <<"ς">>, <<"Ά">>, Words.GRAFO, Words.GRAFO_NFD, Words.GRAFO_UP, Words.GRAFO_PLAIN, Words.GRAFE, Words.LEO,
      Words.LYNO_MARK, Words.LYNO_SPACE, Words.ODOS_UP, Words.GRAPHO_LATIN,
      Words.GRAFW_LATIN }

\* longest text of the pairs handed to get_similarity_score beside the
\* pool texts
MaxLcsLen == 3

LcsPool == SeqsUpTo({"α", "τ"}, MaxLcsLen)

\* the letters of the digraphs th, ch, ps, two capitals and the diphthongs
\* Au, ui
LatinAlphabet == {"t", "h", "c", "p", "s", "T", "i", "u", "A"}

LatinPool == SeqsUpTo(LatinAlphabet, MaxLatinLen)

LongText(n) == [i \in 1..n |-> "α"]

\* texts handed to validate_greek_input
ValidatePool ==
    TextPool \cup { Words.GRAFO_HELLO, <<"1">>, <<"h","i","!">>,
                    <<CyrillicZhe, EnDash, " ", CombiningAcute, CyrillicZhe>>,
                    LongText(LongTextLimit), LongText(LongTextLimit + 1),
                    LongText(LongTextLimit) \o <<" ", " ">> }

\* longest entry list of a source file handed to both loaders
MaxSourceEntries == 2

\* entries of a source file: two spellings of one verb, an entry without
\* lemma, one without class_id, one whose lemma is blank, and a JSON string
SourceItems ==
    << [lemma |-> Words.GRAFO, class_id |-> "A", aorist_active |-> Words.EGRAPSA,
        stems |-> [imperfective |-> Words.GRAF, perfective_active |-> Words.GRAPS,
                   perfective_passive |-> Words.GRAFT]],
       [lemma |-> Words.GRAFO_UP, class_id |-> "B1", aorist_active |-> <<EnDash>>],
       [class_id |-> "A", stems |-> [imperfective |-> Words.LYN]],
       [lemma |-> Words.LYNO, aorist_passive |-> Words.GRAFTHKA],
       [lemma |-> <<" ">>, class_id |-> "A"],
       [not_object |-> "string"] >>

SourceFiles ==
    { [parses |-> FALSE, value |-> EmptyDict],
      [parses |-> TRUE, value |-> [not_object |-> "array"]],
      [parses |-> TRUE, value |-> [version |-> <<"1">>]] }
    \cup { [parses |-> TRUE,
            value |-> [entries |-> [i \in 1..Len(ix) |-> SourceItems[ix[i]]]]] :
              ix \in SeqsUpTo(1..Len(SourceItems), MaxSourceEntries) }

----------------------------------------------------------------------------
(* State machine *)

InitCommon ==
    /\ lexicon = EmptyDict
    /\ irregulars = EmptyDict
    /\ lemma = <<>>
    /\ normalized = <<>>
    /\ entry = None
    /\ irregular = None
    /\ built = <<>>
    /\ forms = <<>>
    /\ outcome = "none"
    /\ prev = None
    /\ calls = 0
    /\ log = <<>>
    /\ load = None
    /\ threads = <<>>
    /\ heap = [stems |-> <<>>, forms |-> <<>>]
    /\ db = [conjugation |-> None, progress |-> None, practice_session |-> None]
    /\ reply = None

\* main() of scripts/generate_conjugations_from_lexicon.py before the loads
Init == InitCommon /\ phase = "setup"

\* lexicon = load_lexicon(args.lexicon)
LoadLexicon(data) ==
    /\ phase = "setup"
    /\ lexicon' = load_lexicon(data)
    /\ phase' = "lexicon_loaded"
    /\ UNCHANGED <<irregulars, lemma, normalized, entry, irregular, built, forms, outcome,
                   prev, calls>>
    /\ UNCHANGED <<textVars, loadVars, concVars, answerVars>>

\* irregulars = load_irregulars(args.irregulars)
LoadIrregulars(data) ==
    /\ phase = "lexicon_loaded"
    /\ irregulars' = load_irregulars(data)
    /\ phase' = "ready"
    /\ UNCHANGED <<lexicon, lemma, normalized, entry, irregular, built, forms, outcome,
                   prev, calls>>
    /\ UNCHANGED <<textVars, loadVars, concVars, answerVars>>

\* the call just finished, kept for comparison with the next one
ThisCall ==
    [lemma |-> lemma, normalized |-> normalized, entry |-> entry, irregular |-> irregular,
     built |-> built, forms |-> forms, outcome |-> outcome]

\* one call generate_conjugations(lem, lexicon, irregulars)
GenerateConjugations(lem) ==
    /\ phase = "ready"
    /\ calls < MaxCalls
    /\ calls' = calls + 1
    /\ lemma' = lem
    /\ \E r \in {generate_conjugations(lem, lexicon, irregulars)} :
       /\ normalized' = r.normalized
       /\ entry' = Some(r.entry)
       /\ irregular' = r.irregular
       /\ built' = r.built
       /\ forms' = r.forms
       /\ outcome' = IF r.raised THEN "ValueError" ELSE "ok"
       /\ prev' = IF outcome = "none" THEN None ELSE Some(ThisCall)
       /\ UNCHANGED <<lexicon, irregulars, phase>>
       /\ UNCHANGED <<textVars, loadVars, concVars, answerVars>>

Next ==
    \/ \E data \in LexiconFiles : LoadLexicon(data)
    \/ \E data \in IrregularsFiles : LoadIrregulars(data)
    \/ \E lem \in CallLemmas : GenerateConjugations(lem)

Spec == Init /\ [][Next]_vars

\* direct calls: one build_forms(e), then at most one
\* apply_irregular_overrides on the list it returned
InitBuild == InitCommon /\ phase = "direct"

BuildForms(e) ==
    /\ phase = "direct"
    /\ entry' = Some(e)
    /\ \E b \in {build_forms(e)} :
       /\ built' = b.forms
       /\ forms' = b.forms
       /\ irregular' = None
       /\ outcome' = IF b.raised THEN "ValueError" ELSE "ok"
       /\ phase' = "built"
       /\ UNCHANGED <<lexicon, irregulars, lemma, normalized, prev, calls>>
       /\ UNCHANGED <<textVars, loadVars, concVars, answerVars>>

\* apply_irregular_overrides(forms, irr) on the list build_forms returned
ApplyIrregularOverrides(irr) ==
    /\ phase = "built"
    /\ outcome = "ok"
    /\ forms' = apply_irregular_overrides(forms, irr)
    /\ irregular' = irr
    /\ phase' = "overridden"
    /\ UNCHANGED <<lexicon, irregulars, lemma, normalized, entry, built, outcome, prev, calls>>
    /\ UNCHANGED <<textVars, loadVars, concVars, answerVars>>

NextBuild ==
    \/ \E e \in EntryPool : BuildForms(e)
    \/ \E irr \in IrregularArgs : ApplyIrregularOverrides(irr)

SpecBuild == InitBuild /\ [][NextBuild]_vars

\* both loaders called on one source file, in either order
InitLoad == InitCommon /\ phase = "load"

\* the source is free for the first call and fixed for the second
FreeFor(file, loader) ==
    IF load = None THEN TRUE
    ELSE load[1].source = file /\ load[1][loader] = None

Loaded(file, loader, result) ==
    IF load = None
    THEN Some((loader :> Some(result))
                @@ [source |-> file, lexicon |-> None, irregulars |-> None])
    ELSE Some((loader :> Some(result)) @@ load[1])

LoadLexiconFrom(file) ==
    /\ phase = "load"
    /\ FreeFor(file, "lexicon")
    /\ load' = Loaded(file, "lexicon", load_lexicon_path(file))
    /\ UNCHANGED <<genVars, textVars, concVars, answerVars>>

LoadIrregularsFrom(file) ==
    /\ phase = "load"
    /\ FreeFor(file, "irregulars")
    /\ load' = Loaded(file, "irregulars", load_irregulars_path(file))
    /\ UNCHANGED <<genVars, textVars, concVars, answerVars>>

NextLoad ==
    \/ \E file \in SourceFiles : LoadLexiconFrom(file)
    \/ \E file \in SourceFiles : LoadIrregularsFrom(file)

SpecLoad == InitLoad /\ [][NextLoad]_vars

\* calls of the GreekTextProcessor class methods: the first call of a run
\* takes its texts from the pools, a later call takes what the call before
\* it returned (or, for the two-text functions, the same texts swapped)
InitText == InitCommon /\ phase = "text"

LastCall == log[Len(log)]

Feed(ops, pool) ==
    IF log = <<>> THEN pool
    ELSE IF LastCall.op \in ops THEN {LastCall.result} ELSE {}

PairFeed(op) ==
    IF log = <<>> THEN TextPool \X TextPool
    ELSE IF LastCall.op = op THEN {<<LastCall.args[2], LastCall.args[1]>>} ELSE {}

\* one call, appended to the log; a returned str is kept as result, a bool as
\* equal, a float as score and a dict as report
TextCall(call) ==
    /\ phase = "text"
    /\ Len(log) < MaxChain
    /\ log' = Append(log, call)
    /\ UNCHANGED <<genVars, loadVars, concVars, answerVars>>

NormalizeUnicode(x) ==
    TextCall([op |-> "normalize_unicode", args |-> <<x>>, result |-> normalize_unicode(x)])

RemoveAccents(x) ==
    TextCall([op |-> "remove_accents", args |-> <<x>>, result |-> remove_accents(x)])

TransliterateToGreek(x) ==
    TextCall([op |-> "transliterate_to_greek", args |-> <<x>>,
              result |-> transliterate_to_greek(x)])

TransliterateToLatin(x) ==
    TextCall([op |-> "transliterate_to_latin", args |-> <<x>>,
              result |-> transliterate_to_latin(x)])

CompareAccentInsensitive(a, b) ==
    TextCall([op |-> "compare_accent_insensitive", args |-> <<a, b>>,
              equal |-> compare_accent_insensitive(a, b)])

GetSimilarityScore(a, b) ==
    TextCall([op |-> "get_similarity_score", args |-> <<a, b>>,
              score |-> get_similarity_score(a, b)])

ValidateGreekInput(x) ==
    TextCall([op |-> "validate_greek_input", args |-> <<x>>,
              report |-> validate_greek_input(x)])

SuggestCorrections(a, b) ==
    TextCall([op |-> "suggest_corrections", args |-> <<a, b>>,
              hints |-> suggest_corrections(a, b)])

NextText ==
    \/ \E x \in Feed({"normalize_unicode"}, TextPool) : NormalizeUnicode(x)
    \/ \E x \in Feed({"remove_accents"}, TextPool) : RemoveAccents(x)
    \/ \E x \in Feed({"transliterate_to_latin"}, LatinPool) : TransliterateToGreek(x)
    \/ \E x \in Feed({"transliterate_to_greek"}, TextPool) : TransliterateToLatin(x)
    \/ \E p \in PairFeed("compare_accent_insensitive") : CompareAccentInsensitive(p[1], p[2])
    \/ \E p \in PairFeed("get_similarity_score")
                  \cup (IF log = <<>> THEN LcsPool \X LcsPool ELSE {}) :
          GetSimilarityScore(p[1], p[2])
    \/ \E x \in Feed({}, ValidatePool) : ValidateGreekInput(x)
    \/ \E p \in PairFeed("suggest_corrections") : SuggestCorrections(p[1], p[2])

SpecText == InitText /\ [][NextText]_vars

\* concurrent calls of generate_conjugations on one lexicon, one irregulars
\* map and the class table. A dict created by a call is a cell of the heap
\* and a reference to it is its index; a call moves one statement at a time
\* and any other call may move between two of its statements.
ThreadIds == {1, 2}

ConcLexiconFile == [entries |-> <<LexiconItems[1], LexiconItems[4]>>]

ConcIrregularsFile == [entries |-> <<IrregularItems[1], IrregularItems[3]>>]

ConcLemmas == {Words.GRAFO, Words.GRAFO_UP, Words.LYNO, Words.EIMAI}

NotCalled ==
    [ pc |-> "idle", lemma |-> <<>>, normalized |-> <<>>, entry |-> None,
      irregular |-> None, forms |-> <<>>, item |-> 0 ]

\* mutant: a dict equal to one already on the heap is taken from there
Allocate_Interned(cells, objs) ==
    [ cells |-> cells \o objs,
      ids |-> [i \in 1..Len(objs) |->
                 IF \E j \in 1..Len(cells) : cells[j] = objs[i]
                 THEN CHOOSE j \in 1..Len(cells) : cells[j] = objs[i]
                 ELSE Len(cells) + i] ]

\* lines 145, 188-203: every dict display evaluated is a new object
Allocate(cells, objs) ==
    [ cells |-> cells \o objs,
      ids |-> [i \in 1..Len(objs) |-> Len(cells) + i] ]

\* the dict a reference of a forms list stands for, with the stems dict its
\* morphology refers to
Deref(id) == [heap.forms[id] EXCEPT !.morphology.stems = heap.stems[@]]

\* the list a call holds, as the caller reads it
FormsOf(t) == [i \in 1..Len(threads[t].forms) |-> Deref(threads[t].forms[i])]

InitConc == InitCommon /\ phase = "concurrent"

\* the maps every call is given are loaded before the first call
Serve ==
    /\ phase = "concurrent"
    /\ phase' = "serving"
    /\ lexicon' = load_lexicon(ConcLexiconFile)
    /\ irregulars' = load_irregulars(ConcIrregularsFile)
    /\ threads' = [t \in ThreadIds |-> NotCalled]
    /\ UNCHANGED <<lemma, normalized, entry, irregular, built, forms, outcome, prev,
                   calls, heap, textVars, loadVars, answerVars>>

\* line 225: a thread enters generate_conjugations
Call(t, lem) ==
    /\ phase = "serving"
    /\ threads[t].pc = "idle"
    /\ threads' = [threads EXCEPT ![t].pc = "lookup", ![t].lemma = lem]
    /\ UNCHANGED <<genVars, textVars, loadVars, heap, answerVars>>

\* lines 230-238
Lookup(t) ==
    /\ phase = "serving"
    /\ threads[t].pc = "lookup"
    /\ LET key == normalize_lemma(threads[t].lemma)
       IN threads' = [threads EXCEPT
              ![t].pc = "build",
              ![t].normalized = key,
              ![t].entry = IF key \in DOMAIN lexicon THEN Some(lexicon[key])
                           ELSE Some(FallbackEntry(threads[t].lemma))]
    /\ UNCHANGED <<genVars, textVars, loadVars, heap, answerVars>>

\* line 239: build_forms reads the entry and the class table and writes
\* only to the dicts and the list it creates
Build(t) ==
    /\ phase = "serving"
    /\ threads[t].pc = "build"
    /\ \E b \in {build_forms(threads[t].entry[1])} :
         IF b.raised
         THEN /\ threads' = [threads EXCEPT ![t].pc = "raised"]
              /\ UNCHANGED heap
         ELSE \E s \in {Allocate(heap.stems, <<ResolveStems(threads[t].entry[1])>>)} :
              \E f \in {Allocate(heap.forms,
                                 [i \in 1..Len(b.forms) |->
                                    [b.forms[i] EXCEPT !.morphology.stems = s.ids[1]]])} :
                /\ heap' = [stems |-> s.cells, forms |-> f.cells]
                /\ threads' = [threads EXCEPT ![t].pc = "irregular", ![t].forms = f.ids]
    /\ UNCHANGED <<genVars, textVars, loadVars, answerVars>>

\* line 240
GetIrregular(t) ==
    /\ phase = "serving"
    /\ threads[t].pc = "irregular"
    /\ threads' = [threads EXCEPT
           ![t].pc = "override",
           ![t].item = 1,
           ![t].irregular = IF DOMAIN irregulars # {}
                            THEN Get(irregulars, threads[t].normalized) ELSE None]
    /\ UNCHANGED <<genVars, textVars, loadVars, heap, answerVars>>

\* line 208: not irregular
NotIrregular(irr) == IF irr = None THEN TRUE ELSE DOMAIN irr[1] = {}

\* lines 216-221: one turn of the loop writes to the dict item refers to
OverrideForm(t) ==
    /\ phase = "serving"
    /\ threads[t].pc = "override"
    /\ ~NotIrregular(threads[t].irregular)
    /\ threads[t].item <= Len(threads[t].forms)
    /\ heap' = [heap EXCEPT !.forms[threads[t].forms[threads[t].item]] =
                               OverrideItem(threads[t].irregular[1], @)]
    /\ threads' = [threads EXCEPT ![t].item = @ + 1]
    /\ UNCHANGED <<genVars, textVars, loadVars, answerVars>>

\* lines 209, 222: return forms
Return(t) ==
    /\ phase = "serving"
    /\ threads[t].pc = "override"
    /\ IF NotIrregular(threads[t].irregular) THEN TRUE
       ELSE threads[t].item > Len(threads[t].forms)
    /\ threads' = [threads EXCEPT ![t].pc = "done"]
    /\ UNCHANGED <<genVars, textVars, loadVars, heap, answerVars>>

NextConc ==
    \/ Serve
    \/ \E t \in ThreadIds, lem \in ConcLemmas : Call(t, lem)
    \/ \E t \in ThreadIds : Lookup(t)
    \/ \E t \in ThreadIds : Build(t)
    \/ \E t \in ThreadIds : GetIrregular(t)
    \/ \E t \in ThreadIds : OverrideForm(t)
    \/ \E t \in ThreadIds : Return(t)

SpecConc == InitConc /\ [][NextConc]_vars

\* answers to one practice question: the rows of one conjugation, one
\* progress record and one practice session
MaxAnswers == 5

\* forms of the conjugation asked: a word, and a row whose form is empty
FormPool == {Words.GRAFO, <<>>}

\* request bodies: a blank answer, the form in capitals with a trailing
\* space, a wrong form; either flag; the session or an unknown id
RequestPool ==
    { [session_id |-> s, answer |-> a, is_correct |-> c] :
        s \in {1, 2}, a \in {<<" ">>, Words.GRAFO_UP, Words.GRAFE}, c \in BOOLEAN }

InitAnswer == InitCommon /\ phase = "practice"

\* start_practice_session, lines 93-102: the session row starts with both counters 0
StartPractice(form) ==
    /\ phase = "practice"
    /\ phase' = "answering"
    /\ db' = [db EXCEPT !.conjugation = Some([form |-> form]),
                        !.practice_session = Some([id |-> 1, questions_attempted |-> 0,
                                                   correct_answers |-> 0])]
    /\ UNCHANGED <<lexicon, irregulars, lemma, normalized, entry, irregular, built, forms,
                   outcome, prev, calls, textVars, loadVars, concVars, reply>>

\* one request of /practice/answer, while fewer than MaxAnswers were sent
SubmitAnswer(data) ==
    /\ phase = "answering"
    /\ IF db.progress = None THEN TRUE ELSE db.progress[1].attempts < MaxAnswers
    /\ \E r \in {submit_answer(db, data)} :
         /\ db' = r.rows
         /\ reply' = Some([data |-> data, before |-> db, response |-> r.response])
    /\ UNCHANGED <<genVars, textVars, loadVars, concVars>>

NextAnswer ==
    \/ \E form \in FormPool : StartPractice(form)
    \/ \E data \in RequestPool : SubmitAnswer(data)

SpecAnswer == InitAnswer /\ [][NextAnswer]_vars

----------------------------------------------------------------------------
(* Claims about build_forms and apply_irregular_overrides (SpecBuild) *)

RegisteredIds == {"A", "B1", "B2"}

\* the canonical person/number sequence, as the specification lists it
CanonicalSlots ==
    << <<"1st", "singular">>, <<"2nd", "singular">>, <<"3rd", "singular">>,
       <<"1st", "plural">>,   <<"2nd", "plural">>,   <<"3rd", "plural">> >>

ClaimTenses == <<"present", "imperfect", "aorist", "future">>

ClaimVoices == <<"active", "passive">>

\* the list is ordered by tense, then voice, then canonical slot, and every
\* form is indicative
InClaimOrder(fs) ==
    \A i \in 1..Len(fs) :
        /\ ((i - 1) \div 12) + 1 \in 1..Len(ClaimTenses)
        /\ fs[i].tense = ClaimTenses[((i - 1) \div 12) + 1]
        /\ fs[i].voice = ClaimVoices[(((i - 1) \div 6) % 2) + 1]
        /\ <<fs[i].person, fs[i].number>> = CanonicalSlots[((i - 1) % 6) + 1]
        /\ fs[i].mood = "indicative"

BuiltForRegisteredClass == entry # None /\ entry[1].class_id \in RegisteredIds

\* C1 as stated: build_forms on an entry of class A, B1 or B2 returns exactly
\* 24 forms in tense, voice, canonical-slot order, all indicative.
C1_Exactly24Forms ==
    BuiltForRegisteredClass => (outcome = "ok" /\ Len(built) = 24 /\ InClaimOrder(built))

\* C1 amended: build_forms on an entry of class A, B1 or B2 returns exactly
\* 48 forms (4 tenses x 2 voices x 6 slots) in tense, voice, canonical-slot
\* order, all indicative.
C1_Exactly48FormsInOrder ==
    BuiltForRegisteredClass => (outcome = "ok" /\ Len(built) = 48 /\ InClaimOrder(built))

C1_Witness ==
    /\ phase = "built"
    /\ entry # None /\ entry[1].class_id = "B2" /\ entry[1].stems = EmptyDict
    /\ entry[1].use_augment = Some(FALSE)
    /\ Len(built) = 48
    /\ built[48].tense = "future" /\ built[48].voice = "passive"
    /\ built[48].person = "3rd" /\ built[48].number = "plural"

\* the stem slot a (tense, voice) pair selects, as the specification states it
ClaimSlot(tense, voice) ==
    IF tense \in {"present", "imperfect"} THEN "imperfective"
    ELSE IF voice = "passive" THEN "perfective_passive" ELSE "perfective_active"

\* the lemma with the first matching verb-final suffix stripped
ClaimSuffixes == << <<"ο","μ","α","ι">>, <<"μ","α","ι">>, <<"ώ">>, <<"ω">> >>

ClaimBase(lem) ==
    IF \E k \in 1..Len(ClaimSuffixes) : EndsWith(lem, ClaimSuffixes[k])
    THEN LET k == CHOOSE j \in 1..Len(ClaimSuffixes) :
                     /\ EndsWith(lem, ClaimSuffixes[j])
                     /\ \A h \in 1..(j - 1) : ~EndsWith(lem, ClaimSuffixes[h])
         IN SubSeq(lem, 1, Len(lem) - Len(ClaimSuffixes[k]))
    ELSE lem

\* C2: every form whose tense and voice select a missing or empty stem slot
\* is built on the fallback base of the entry's lemma, and a slot that is
\* present keeps its own stem.
C2_MissingSlotsUseFallbackBase ==
    (BuiltForRegisteredClass /\ outcome = "ok") =>
        \A i \in 1..Len(built) :
            LET slot == ClaimSlot(built[i].tense, built[i].voice)
                own == StemOf(entry[1], slot)
            IN built[i].morphology.stems[slot] =
                   IF own # <<>> THEN own ELSE ClaimBase(entry[1].lemma)

\* C8: get_conjugation_class serves A, B1 and B2 and raises for every other
\* id; build_forms on an entry with another id raises the same error and
\* emits no forms.
ClaimPresentPassiveFirst(id) ==
    IF id = "A" THEN <<"ο","μ","α","ι">>
    ELSE IF id = "B1" THEN <<"ι","ε","μ","α","ι">>
    ELSE <<"ο","υ","μ","α","ι">>

C8_UnknownClassRaises ==
    entry # None =>
        IF entry[1].class_id \in RegisteredIds
        THEN /\ outcome = "ok"
             /\ built # <<>>
             /\ EndsWith(built[7].form, ClaimPresentPassiveFirst(entry[1].class_id))
             /\ \A i \in 1..Len(built) : built[i].morphology.class_id = entry[1].class_id
        ELSE outcome = "ValueError" /\ built = <<>> /\ forms = <<>>

C8_Witness ==
    /\ phase = "built" /\ entry # None /\ entry[1].class_id = ""
    /\ outcome = "ValueError" /\ built = <<>>

\* the two slots an irregular record can rewrite
IsOverrideSlot(f, voice) ==
    f.tense = "aorist" /\ f.person = "1st" /\ f.number = "singular" /\ f.voice = voice

ClaimKey(voice) == IF voice = "active" THEN "aorist_active" ELSE "aorist_passive"

\* the record gives a real replacement for the slot of this voice: present,
\* not empty, not the dash placeholder (en dash or hyphen)
GivesReplacement(irr, voice) ==
    /\ irr # None
    /\ ClaimKey(voice) \in DOMAIN irr[1]
    /\ irr[1][ClaimKey(voice)] \notin {<<>>, <<EnDash>>, <<"-">>}

HasOverrideTag(f) == "override" \in DOMAIN f.morphology

\* C5: apply_irregular_overrides changes at most the aorist 1st-singular
\* active and passive forms; a slot with a real replacement gets that string
\* and the override tag, every other form is unchanged and untagged.
C5_OverrideTouchesTwoSlots ==
    phase = "overridden" =>
        /\ Len(forms) = Len(built)
        /\ Cardinality({i \in 1..Len(forms) : forms[i] # built[i]}) <= 2
        /\ \A i \in 1..Len(forms) :
              IF \E v \in {"active", "passive"} :
                     IsOverrideSlot(built[i], v) /\ GivesReplacement(irregular, v)
              THEN /\ forms[i].form = irregular[1][ClaimKey(built[i].voice)]
                   /\ HasOverrideTag(forms[i])
                   /\ forms[i].morphology["override"] = "philologist_irregulars"
                   /\ \A k \in DOMAIN built[i].morphology :
                          forms[i].morphology[k] = built[i].morphology[k]
              ELSE forms[i] = built[i] /\ ~HasOverrideTag(forms[i])

C5_Witness ==
    /\ phase = "overridden"
    /\ GivesReplacement(irregular, "active") /\ GivesReplacement(irregular, "passive")
    /\ forms[25].form = Words.EGRAPSA /\ forms[31].form = Words.GRAFTHKA
    /\ built[25].form # Words.EGRAPSA
    /\ HasOverrideTag(forms[25]) /\ ~HasOverrideTag(forms[26])

\* C6: with no irregular record the call changes nothing, and a slot whose
\* override value is missing, empty or the dash placeholder is left as built.
C6_NoRecordOrPlaceholderNoChange ==
    phase = "overridden" =>
        /\ (irregular = None => forms = built)
        /\ \A i \in 1..Len(built) : \A v \in {"active", "passive"} :
              (IsOverrideSlot(built[i], v) /\ ~GivesReplacement(irregular, v))
                  => forms[i] = built[i]

C6_Witness ==
    /\ phase = "overridden"
    /\ irregular # None
    /\ GivesReplacement(irregular, "active")
    /\ "aorist_passive" \in DOMAIN irregular[1]
    /\ irregular[1]["aorist_passive"] = <<"-">>
    /\ forms[25] # built[25]
    /\ forms[31] = built[31]

C6_WitnessNoRecord == phase = "overridden" /\ irregular = None /\ forms = built /\ Len(forms) = 48

\* the entry handed to build_forms has its three stems, none of them empty
AllStemsPresent == entry # None /\ \A k \in StemSlots : StemOf(entry[1], k) # <<>>

\* the class ending of the i-th form
ClaimEnding(i) ==
    CONJUGATION_CLASSES[entry[1].class_id].endings[built[i].tense][built[i].voice][((i - 1) % 6) + 1]

\* the entry's stem for the i-th form
ClaimStem(i) == entry[1].stems[ClaimSlot(built[i].tense, built[i].voice)]

ClaimAugment == <<"ε">>

ClaimParticle == <<"θ","α"," ">>

\* C19: for an entry with all three stems, present and imperfect forms are
\* built on the imperfective stem, aorist and future forms on
\* perfective_passive in the passive voice and on perfective_active
\* otherwise, and a future form is 'θα', one space, then the unaugmented
\* stem plus ending
C19_StemSelection ==
    (BuiltForRegisteredClass /\ outcome = "ok" /\ AllStemsPresent) =>
        \A i \in 1..Len(built) :
            /\ built[i].tense = "present" =>
                  built[i].form = ClaimStem(i) \o ClaimEnding(i)
            /\ built[i].tense = "imperfect" =>
                  built[i].form \in { ClaimStem(i) \o ClaimEnding(i),
                                      ClaimAugment \o ClaimStem(i) \o ClaimEnding(i) }
            /\ built[i].tense = "aorist" =>
                  \/ StartsWith(built[i].form, ClaimStem(i))
                  \/ StartsWith(built[i].form, ClaimAugment \o ClaimStem(i))
            /\ built[i].tense = "future" =>
                  built[i].form = ClaimParticle \o ClaimStem(i) \o ClaimEnding(i)

\* an entry with three different stems: the aorist active is built on
\* perfective_active, the future passive on perfective_passive
C19_Witness ==
    /\ phase = "built" /\ outcome = "ok"
    /\ AllStemsPresent
    /\ entry[1].stems["perfective_active"] = Words.GRAPS
    /\ entry[1].stems["perfective_passive"] = Words.GRAFT
    /\ built[25].tense = "aorist" /\ built[25].voice = "active"
    /\ StartsWith(built[25].form, ClaimAugment \o Words.GRAPS)
    /\ built[43].tense = "future" /\ built[43].voice = "passive"
    /\ StartsWith(built[43].form, ClaimParticle \o Words.GRAFT)

\* use_augment as the claim resolves it: the entry's value when set, the
\* class default otherwise
ClaimUseAugment ==
    IF entry[1].use_augment # None THEN entry[1].use_augment[1]
    ELSE CONJUGATION_CLASSES[entry[1].class_id].use_augment

ClaimVowels == {"α","ε","η","ι","ο","υ","ω","ά","έ","ή","ί","ό","ύ","ώ"}

\* the stem selected for the i-th form, as the form records it
ClaimSelectedStem(i) == built[i].morphology.stems[ClaimSlot(built[i].tense, built[i].voice)]

C20_WitnessOff ==
    /\ phase = "built" /\ outcome = "ok"
    /\ entry[1].use_augment = Some(FALSE)
    /\ ClaimSelectedStem(13) = Words.GRAF
    /\ built[13].tense = "imperfect"
    /\ StartsWith(built[13].form, Words.GRAF)

\* a vowel-initial stem gets no prefix
C20_WitnessVowel ==
    /\ phase = "built" /\ outcome = "ok"
    /\ ClaimUseAugment
    /\ ClaimSelectedStem(25) = Words.AGAP
    /\ built[25].tense = "aorist"
    /\ StartsWith(built[25].form, Words.AGAP)

\* the strings a form may start with: its selected stem, with or without
\* the augment
ClaimStemPrefixes(i) == {ClaimSelectedStem(i), ClaimAugment \o ClaimSelectedStem(i)}

\* the aorist-active ending as the claim gives it
ClaimAoristActiveEnding(i) ==
    IF entry[1].aorist_type = Some("sigmatic") /\ ClaimEnding(i) # <<>>
       /\ Head(ClaimEnding(i)) = "σ"
    THEN Tail(ClaimEnding(i))
    ELSE ClaimEnding(i)

ClaimAoristTypes == {None, Some("sigmatic"), Some("non-sigmatic")}

ClaimIsAoristActive(f) == f.tense = "aorist" /\ f.voice = "active"

\* C21: in the aorist active of a sigmatic entry an ending that begins with
\* σ is used without that σ and any other ending is used unchanged; for any
\* other aorist_type the class ending is used unchanged; and the same entry
\* with another aorist_type has the same surface string in every form that
\* is not one of the six aorist-active forms
C21_SigmaticAoristEnding ==
    (BuiltForRegisteredClass /\ outcome = "ok") =>
        /\ \A i \in 1..Len(built) :
             ClaimIsAoristActive(built[i]) =>
                \E prefix \in ClaimStemPrefixes(i) :
                    built[i].form = prefix \o ClaimAoristActiveEnding(i)
        /\ \A a \in ClaimAoristTypes :
             LET other == build_forms([entry[1] EXCEPT !.aorist_type = a]).forms
             IN /\ Len(other) = Len(built)
                /\ \A i \in 1..Len(built) :
                     ~ClaimIsAoristActive(built[i]) => other[i].form = built[i].form

\* a sigmatic entry of class A: the ending σα of the first aorist-active
\* form is joined as α
C21_Witness ==
    /\ phase = "built" /\ outcome = "ok"
    /\ entry[1].aorist_type = Some("sigmatic")
    /\ entry[1].class_id = "A"
    /\ ClaimSelectedStem(25) = Words.GRAPS
    /\ ClaimIsAoristActive(built[25])
    /\ ClaimEnding(25) = <<"σ","α">>
    /\ built[25].form = ClaimAugment \o Words.GRAPS \o <<"α">>

\* the same entry marked non-sigmatic keeps the σ of the ending
C21_WitnessOther ==
    /\ phase = "built" /\ outcome = "ok"
    /\ entry[1].aorist_type = Some("non-sigmatic")
    /\ entry[1].class_id = "A"
    /\ ClaimSelectedStem(25) = Words.GRAPS
    /\ built[25].form = ClaimAugment \o Words.GRAPS \o <<"σ","α">>

ClaimIsAoristPassive(f) == f.tense = "aorist" /\ f.voice = "passive"

\* x alone, after the augment, or after the future particle
ClaimPrefixed(x) == {x, ClaimAugment \o x, ClaimParticle \o x}

\* the aorist passive of the i-th form as the claim gives it
ClaimAssimilated(i) ==
    LET stem == ClaimSelectedStem(i)
        ending == ClaimEnding(i)
    IN IF EndsWith(stem, <<"τ">>) /\ StartsWith(ending, <<"θ","η">>)
       THEN built[i].form \in
              ClaimPrefixed(DropLast(stem, 1) \o <<"τ","η">> \o DropFirst(ending, 2))
       ELSE IF EndsWith(stem, <<"τ">>) /\ StartsWith(ending, <<"τ","η">>)
       THEN built[i].form \in ClaimPrefixed(stem \o DropFirst(ending, 1))
       ELSE EndsWith(stem, <<"τ">>) \/ built[i].form \in ClaimPrefixed(stem \o ending)

\* an ending that already begins with τη, which no registered class has,
\* given to lines 161-187 with the stems and the augment of the entry built
ClaimTauEnding == <<"τ","η","κ","α">>

ClaimTauEndingJoined ==
    LET stems == built[1].morphology.stems
        stem == stems["perfective_passive"]
        joined == SurfaceForm(entry[1], stems, built[1].morphology.use_augment,
                              "aorist", "passive", ClaimTauEnding)
    IN EndsWith(stem, <<"τ">>) => joined \in ClaimPrefixed(stem \o <<"η","κ","α">>)

\* C22 as stated: in the aorist passive a stem in τ with an ending in θη
\* gets τη for θη, and with an ending in τη loses its own τ, so that one τ
\* and no θ stands at the boundary; a stem that does not end in τ, and
\* every other tense and voice, is joined to its class ending with neither
\* side altered
C22_TauAssimilationAsStated ==
    (BuiltForRegisteredClass /\ outcome = "ok") =>
        /\ ClaimTauEndingJoined
        /\ \A i \in 1..Len(built) :
             IF ClaimIsAoristPassive(built[i]) THEN ClaimAssimilated(i)
             ELSE built[i].form \in ClaimPrefixed(ClaimSelectedStem(i) \o ClaimEnding(i))

\* C22, amended: as stated, except that outside the aorist passive the
\* ending joined in the aorist active is the one of the sigmatic rule (the
\* class ending without its leading σ for a sigmatic entry)
C22_TauAssimilation ==
    (BuiltForRegisteredClass /\ outcome = "ok") =>
        /\ ClaimTauEndingJoined
        /\ \A i \in 1..Len(built) :
             IF ClaimIsAoristPassive(built[i]) THEN ClaimAssimilated(i)
             ELSE IF ClaimIsAoristActive(built[i])
             THEN built[i].form \in
                    ClaimPrefixed(ClaimSelectedStem(i) \o ClaimAoristActiveEnding(i))
             ELSE built[i].form \in ClaimPrefixed(ClaimSelectedStem(i) \o ClaimEnding(i))

\* the passive stem γράφτ with the class A ending θηκα: one τ, no θ
C22_Witness ==
    /\ phase = "built" /\ outcome = "ok"
    /\ entry[1].class_id = "A"
    /\ ClaimSelectedStem(31) = Words.GRAFT
    /\ ClaimIsAoristPassive(built[31])
    /\ ClaimEnding(31) = <<"θ","η","κ","α">>
    /\ built[31].form = ClaimAugment \o Words.GRAFTHKA

\* a passive stem that does not end in τ keeps the θ of the ending
C22_WitnessNoTau ==
    /\ phase = "built" /\ outcome = "ok"
    /\ entry[1].class_id = "A"
    /\ ClaimSelectedStem(31) = Words.AGAP
    /\ built[31].form = Words.AGAP \o <<"θ","η","κ","α">>

----------------------------------------------------------------------------
(* Claims about generate_conjugations (Spec) *)

Called == calls > 0

Found == normalized \in DOMAIN lexicon

\* C3 as stated: generate_conjugations never raises, whatever the lemma and
\* whatever the lexicon entry contains.
C3_NeverRaises == Called => outcome = "ok"

\* C3 amended: generate_conjugations raises only the unknown-class error of
\* a lexicon entry whose class_id is not A, B1 or B2; for every other lemma,
\* in the lexicon or not, the empty string included, it returns the forms.
C3_RaisesOnlyForUnregisteredClass ==
    Called =>
        IF Found /\ lexicon[normalized].class_id \notin RegisteredIds
        THEN outcome = "ValueError" /\ forms = <<>>
        ELSE outcome = "ok" /\ Len(forms) = 48

C3_Witness ==
    /\ Called /\ lemma = <<>> /\ ~Found
    /\ DOMAIN lexicon # {} /\ DOMAIN irregulars # {}
    /\ outcome = "ok" /\ Len(forms) = 48

FallbackStems(lem) == [k \in StemSlots |-> ClaimBase(lem)]

BuiltOnFallback(fs, lem) ==
    \A i \in 1..Len(fs) :
        /\ fs[i].morphology.class_id = "A"
        /\ fs[i].morphology.stems = FallbackStems(lem)

\* C4 as stated: for a lemma absent from the lexicon the call returns exactly
\* 24 forms of class A on the fallback base, and the returned forms are
\* marked with notes == "fallback_lexicon".
C4_Absent24FormsWithNotes ==
    (Called /\ ~Found) =>
        /\ outcome = "ok"
        /\ Len(forms) = 24
        /\ BuiltOnFallback(forms, lemma)
        /\ \A i \in 1..Len(forms) :
              /\ "notes" \in DOMAIN forms[i].morphology
              /\ forms[i].morphology["notes"] = "fallback_lexicon"

\* C4 amended: for a lemma absent from the lexicon the call returns exactly
\* 48 forms of class A with all three stems equal to the fallback base, built
\* from a synthesized entry whose notes field is "fallback_lexicon"; the
\* returned form records have no notes field.
C4_Absent48FormsOnFallbackBase ==
    (Called /\ ~Found) =>
        /\ outcome = "ok"
        /\ Len(forms) = 48
        /\ BuiltOnFallback(forms, lemma)
        /\ entry # None
        /\ entry[1].notes = Some("fallback_lexicon")
        /\ entry[1].class_id = "A"
        /\ \A i \in 1..Len(forms) :
              "notes" \notin DOMAIN forms[i] /\ "notes" \notin DOMAIN forms[i].morphology

C4_Witness ==
    /\ Called /\ ~Found /\ lemma = Words.ERXOMAI
    /\ DOMAIN lexicon # {}
    /\ Len(forms) = 48
    /\ forms[1].morphology.stems["perfective_passive"] = <<"έ","ρ","χ">>
    /\ forms[1].form = <<"έ","ρ","χ","ω">>

\* C7: no form returned by generate_conjugations ends in the non-final
\* sigma, the slots rewritten by an irregular override included.
C7_NoFormEndsInNonFinalSigma ==
    \A i \in 1..Len(forms) :
        forms[i].form # <<>> => forms[i].form[Len(forms[i].form)] # "σ"

TwoCalls == calls >= 2 /\ prev # None

\* C9: two lemmas with equal NormalizedKeys resolve the same lexicon entry
\* and the same irregular record, and return identical lists when the key is
\* in the lexicon; lemmas with different keys resolve different entries.
C9_EqualKeysSameVerb ==
    TwoCalls =>
        /\ prev[1].normalized = normalized =>
              /\ Found => /\ entry = Some(lexicon[normalized])
                          /\ prev[1].entry = entry
                          /\ prev[1].outcome = outcome
                          /\ prev[1].forms = forms
              /\ prev[1].irregular = irregular
              /\ outcome = "ok" =>
                    irregular = IF normalized \in DOMAIN irregulars
                                THEN Some(irregulars[normalized]) ELSE None
        /\ (prev[1].normalized # normalized /\ Found /\ prev[1].normalized \in DOMAIN lexicon) =>
              /\ prev[1].entry # entry
              /\ entry = Some(lexicon[normalized])
              /\ prev[1].entry = Some(lexicon[prev[1].normalized])

C9_Witness ==
    /\ TwoCalls
    /\ prev[1].lemma = Words.GRAFO_UP /\ lemma = Words.GRAFO_NFD
    /\ prev[1].normalized = normalized
    /\ Found /\ normalized \in DOMAIN irregulars
    /\ outcome = "ok" /\ forms # <<>>
    /\ prev[1].forms = forms

\* C10: normalize_lemma is idempotent on every lemma the call normalizes.
C10_NormalizeLemmaIdempotent ==
    Called => normalize_lemma(normalized) = normalized

----------------------------------------------------------------------------
(* Claims about the text functions (SpecText) *)

\* call i of the run applies op to the result of call i - 1, itself a call of op
Reapplied(i, op) ==
    /\ i \in 2..Len(log)
    /\ log[i].op = op
    /\ log[i - 1].op = op
    /\ log[i].args = <<log[i - 1].result>>

\* C11: normalize_unicode and remove_accents are idempotent (applied to its
\* own output, each returns that output unchanged), and each maps the empty
\* string to the empty string
C11_NormalizersIdempotent ==
    \A i \in 1..Len(log) : \A op \in {"normalize_unicode", "remove_accents"} :
        /\ Reapplied(i, op) => log[i].result = log[i - 1].result
        /\ (log[i].op = op /\ log[i].args = << <<>> >>) => log[i].result = <<>>

\* remove_accents applied to its own output, the first application having
\* removed an accent
C11_Witness ==
    /\ Reapplied(2, "remove_accents")
    /\ log[1].args = <<Words.GRAFO>>
    /\ log[1].result = Words.GRAFO_PLAIN

\* call i of the run is a call of op
IsCall(i, op) == i \in 1..Len(log) /\ log[i].op = op

\* call i of the run repeats call i - 1 of op with the two texts swapped
Swapped(i, op) ==
    /\ IsCall(i, op)
    /\ IsCall(i - 1, op)
    /\ log[i].args = <<log[i - 1].args[2], log[i - 1].args[1]>>

\* C12: compare_accent_insensitive is symmetric, true for two empty texts
\* and false when exactly one text is empty
C12_CompareSymmetric ==
    \A i \in 1..Len(log) :
        /\ Swapped(i, "compare_accent_insensitive") => log[i].equal = log[i - 1].equal
        /\ IsCall(i, "compare_accent_insensitive") =>
              /\ log[i].args = << <<>>, <<>> >> => log[i].equal = TRUE
              /\ (log[i].args[1] = <<>>) # (log[i].args[2] = <<>>) => log[i].equal = FALSE

\* two different texts compared equal, then compared again the other way round
C12_Witness ==
    /\ Swapped(2, "compare_accent_insensitive")
    /\ log[1].args = <<Words.GRAFO_UP, Words.GRAFO_NFD>>
    /\ log[1].equal = TRUE

\* C13: get_similarity_score lies in [0,1] (the common-subsequence length
\* never exceeds the longer cleaned length), is 1.0 for a non-empty text
\* against itself and for two empty texts, and 0.0 when exactly one text
\* is empty
C13_SimilarityInUnitInterval ==
    \A i \in 1..Len(log) : IsCall(i, "get_similarity_score") =>
        LET a == log[i].args[1]
            b == log[i].args[2]
            score == log[i].score
        IN /\ score.den > 0
           /\ 0 <= score.num
           /\ score.num <= score.den
           /\ a = b => score.num = score.den
           /\ (a = <<>>) # (b = <<>>) => score.num = 0

\* a score strictly between 0 and 1, from the common-subsequence table
C13_Witness ==
    /\ IsCall(1, "get_similarity_score")
    /\ log[1].args = <<Words.GRAFO, Words.GRAFE>>
    /\ log[1].score.num = 4
    /\ log[1].score.den = 5

\* the run is g = transliterate_to_greek(x), transliterate_to_latin(g),
\* transliterate_to_greek of that
RoundTrip ==
    /\ Len(log) >= 3
    /\ IsCall(1, "transliterate_to_greek")
    /\ IsCall(2, "transliterate_to_latin")
    /\ IsCall(3, "transliterate_to_greek")
    /\ log[1].args[1] \in LatinPool

\* C14: for a text x of Latin letters and g = transliterate_to_greek(x),
\* transliterate_to_greek(transliterate_to_latin(g)) is accent-insensitively
\* equal to g, digraphs th, ch, ps and their neighbours included
C14_TransliterationRoundTrip ==
    RoundTrip => compare_accent_insensitive(log[3].result, log[1].result)

\* the round trip of a text with the digraph ps followed by h
C14_Witness ==
    /\ RoundTrip
    /\ log[1].args = << <<"p","s","h">> >>
    /\ log[1].result = <<"ψ","η">>
    /\ log[2].result = <<"p","s","h">>

\* the characters the validator accepts
ClaimAllowed ==
    GREEK_BASIC_RANGE \cup GREEK_EXTENDED_RANGE \cup BasicLatin \cup {EnDash} \cup Whitespace

\* C18: validate_greek_input never raises; for the empty text it returns
\* valid = false with an error reason; for every other text it returns
\* valid = true and reports no Greek, characters outside the allowed blocks,
\* mixed Greek and Latin letters and more than 200 characters only through
\* has_greek, invalid_characters and warnings
C18_ValidateNeverRaises ==
    \A i \in 1..Len(log) : IsCall(i, "validate_greek_input") =>
        LET text == log[i].args[1]
            r == log[i].report
            chars == Range(Strip(text))
            greek == chars \cap (GREEK_BASIC_RANGE \cup GREEK_EXTENDED_RANGE) # {}
            latin == chars \cap (Range(LatinUpper) \cup Range(LatinLower)) # {}
        IN /\ ~r.raised
           /\ text = <<>> => ~r.valid /\ r.error # ""
           /\ text # <<>> =>
                 /\ r.valid
                 /\ r.has_greek = greek
                 /\ Range(r.invalid_characters) = Range(r.normalized) \ ClaimAllowed
                 /\ (MixedWarning \in Range(r.warnings)) = (greek /\ latin)
                 /\ (LongWarning \in Range(r.warnings)) = (r.character_count > LongTextLimit)
                 /\ r.character_count = Len(SelectSeq(r.normalized, LAMBDA c : c # " "))

\* a text without Greek letters, with characters outside the allowed blocks
C18_Witness ==
    /\ IsCall(1, "validate_greek_input")
    /\ log[1].report.valid
    /\ ~log[1].report.has_greek
    /\ log[1].report.invalid_characters = <<CyrillicZhe, CombiningAcute>>

\* a text of more than 200 characters is valid and draws the warning
C18_WitnessLong ==
    /\ IsCall(1, "validate_greek_input")
    /\ log[1].report.valid
    /\ log[1].report.character_count = LongTextLimit + 1
    /\ log[1].report.warnings = <<LongWarning>>

\* a text without its accents: the decomposed text less its marks
ClaimBare(text) == SelectSeq(NFD(text), LAMBDA c : ~IsMn(c))

ClaimLatinScript(text) ==
    text # <<>> /\ \A i \in 1..Len(text) : text[i] \in Range(LatinUpper) \cup Range(LatinLower)

ClaimGreekScript(text) ==
    text # <<>> /\ \A i \in 1..Len(text) : text[i] \in GREEK_BASIC_RANGE

\* C23: for non-empty a and b, compare_accent_insensitive(a, b) is true
\* exactly when normalize_lemma(a) = normalize_lemma(b); two texts that
\* differ only in accents compare equal; a Latin-script text never compares
\* equal to a Greek-script text
C23_CompareIsNormalizedEquality ==
    \A i \in 1..Len(log) :
        (IsCall(i, "compare_accent_insensitive")
           /\ log[i].args[1] # <<>> /\ log[i].args[2] # <<>>) =>
            LET a == log[i].args[1]
                b == log[i].args[2]
            IN /\ log[i].equal = (normalize_lemma(a) = normalize_lemma(b))
               /\ ClaimBare(a) = ClaimBare(b) => log[i].equal = TRUE
               /\ (ClaimLatinScript(a) /\ ClaimGreekScript(b)) => log[i].equal = FALSE
               /\ (ClaimGreekScript(a) /\ ClaimLatinScript(b)) => log[i].equal = FALSE

\* the cleaned form of a text as the claim describes it
ClaimClean(text) == remove_accents(normalize_unicode(Strip(Lower(text))))

\* the characters of s at the positions in I, in order
RECURSIVE ClaimPick(_, _, _)
ClaimPick(s, I, i) ==
    IF i > Len(s) THEN <<>>
    ELSE (IF i \in I THEN <<s[i]>> ELSE <<>>) \o ClaimPick(s, I, i + 1)

\* x is a subsequence of s
RECURSIVE ClaimIsSubsequence(_, _)
ClaimIsSubsequence(x, s) ==
    IF x = <<>> THEN TRUE
    ELSE IF s = <<>> THEN FALSE
    ELSE IF Head(x) = Head(s) THEN ClaimIsSubsequence(Tail(x), Tail(s))
    ELSE ClaimIsSubsequence(x, Tail(s))

\* the length of a longest common subsequence, by enumeration of the
\* subsequences of a
ClaimLcsLength(a, b) ==
    LET common == { Len(ClaimPick(a, I, 1)) :
                      I \in {J \in SUBSET (1..Len(a)) : ClaimIsSubsequence(ClaimPick(a, J, 1), b)} }
    IN CHOOSE n \in common : \A k \in common : k <= n

\* C24: for two non-empty texts whose cleaned forms differ,
\* get_similarity_score is L / max(m, n) with m, n the lengths of the
\* cleaned forms and L the length of a longest common subsequence of them
C24_SimilarityIsLcsRatio ==
    \A i \in 1..Len(log) :
        (IsCall(i, "get_similarity_score")
           /\ log[i].args[1] # <<>> /\ log[i].args[2] # <<>>
           /\ ClaimClean(log[i].args[1]) # ClaimClean(log[i].args[2])) =>
            LET c1 == ClaimClean(log[i].args[1])
                c2 == ClaimClean(log[i].args[2])
            IN log[i].score.num * Max(Len(c1), Len(c2))
                 = ClaimLcsLength(c1, c2) * log[i].score.den

\* the longest common subsequence τα of ατα and ττα starts after the first
\* letter of the first text
C24_Witness ==
    /\ IsCall(1, "get_similarity_score")
    /\ log[1].args = << <<"α","τ","α">>, <<"τ","τ","α">> >>
    /\ log[1].score.num = 2
    /\ log[1].score.den = 3

\* the value the table gives for a key, None when it has no such key
ClaimMapped(key) ==
    LET hits == {i \in 1..Len(TRANSLITERATION_MAP) : TRANSLITERATION_MAP[i][1] = key}
    IN IF hits = {} THEN None ELSE Some(TRANSLITERATION_MAP[CHOOSE i \in hits : TRUE][2])

\* left-to-right scan of text from position i: the longest key that
\* matches at the position is replaced by its value
RECURSIVE ClaimGreedyScan(_, _)
ClaimGreedyScan(text, i) ==
    IF i > Len(text) THEN <<>>
    ELSE IF i < Len(text) /\ ClaimMapped(SubSeq(text, i, i + 1)) # None
    THEN ClaimMapped(SubSeq(text, i, i + 1))[1] \o ClaimGreedyScan(text, i + 2)
    ELSE IF ClaimMapped(<<text[i]>>) # None
    THEN ClaimMapped(<<text[i]>>)[1] \o ClaimGreedyScan(text, i + 1)
    ELSE <<text[i]>> \o ClaimGreedyScan(text, i + 1)

ClaimIsLatinLetter(c) == c \in Range(LatinUpper) \cup Range(LatinLower)

C25_WitnessOverlap ==
    /\ IsCall(1, "transliterate_to_greek")
    /\ log[1].args = << <<"A","u","i">> >>
    /\ log[1].result = <<"Α","υ","ι">>

\* str.upper() on the characters of the model
ClaimUpper(text) ==
    [i \in 1..Len(text) |->
        IF text[i] = "ς" THEN "Σ"
        ELSE IF text[i] \in Range(LowerLetters)
        THEN UpperLetters[IndexIn(LowerLetters, text[i])]
        ELSE IF text[i] \in Range(LatinLower)
        THEN LatinUpper[IndexIn(LatinLower, text[i])]
        ELSE text[i]]

\* C26: remove_accents commutes with case conversion: for every text s,
\* remove_accents(lower(s)) = lower(remove_accents(s)) and
\* remove_accents(upper(s)) = upper(remove_accents(s)), a capital or final
\* sigma at the end of a word included
C26_RemoveAccentsCommutesWithCase ==
    \A i \in 1..Len(log) : IsCall(i, "remove_accents") =>
        /\ remove_accents(Lower(log[i].args[1])) = Lower(log[i].result)
        /\ remove_accents(ClaimUpper(log[i].args[1])) = ClaimUpper(log[i].result)

\* the three hints for a target, in the order of the claim
ClaimHints(target) ==
    << Hint("Check accents: ", target), Hint("Check capitalization: ", target),
       Hint("Try Greek characters: ", target) >>

\* hints is ClaimHints(target) with some of its items left out
ClaimInOrder(hints, target) ==
    \E keep \in SUBSET {1, 2, 3} :
        hints = SelectSeq(ClaimHints(target),
                          LAMBDA h : \E k \in keep : h = ClaimHints(target)[k])

ClaimHas(hints, k, target) == \E j \in 1..Len(hints) : hints[j] = ClaimHints(target)[k]

\* C27: suggest_corrections returns its hints in the order accent,
\* capitalization, transliteration, each at most once; the accent hint only
\* when input and target are equal once their accents are removed, the
\* capitalization hint only when they are equal once lowercased, the
\* transliteration hint exactly when the input transliterated to Greek is
\* accent-insensitively equal to the target; the list is empty when an
\* argument is empty
C27_SuggestionsOrderedAndExclusive ==
    \A i \in 1..Len(log) : IsCall(i, "suggest_corrections") =>
        LET a == log[i].args[1]
            b == log[i].args[2]
            hints == log[i].hints
        IN /\ ClaimInOrder(hints, b)
           /\ (a = <<>> \/ b = <<>>) => hints = <<>>
           /\ ClaimHas(hints, 1, b) => ClaimBare(a) = ClaimBare(b)
           /\ ClaimHas(hints, 2, b) => Lower(a) = Lower(b)
           /\ (a # <<>> /\ b # <<>>) =>
                 (ClaimHas(hints, 3, b)
                    <=> compare_accent_insensitive(transliterate_to_greek(a), b))

\* C28: the two grading functions agree: get_similarity_score(a, b) is 1.0
\* exactly when compare_accent_insensitive(a, b) is true, empty and
\* whitespace-only texts included
C28_GradingFunctionsAgree ==
    \A i \in 1..Len(log) :
        /\ IsCall(i, "get_similarity_score") =>
              ((log[i].score.num = log[i].score.den)
                 <=> compare_accent_insensitive(log[i].args[1], log[i].args[2]))
        /\ IsCall(i, "compare_accent_insensitive") =>
              LET score == get_similarity_score(log[i].args[1], log[i].args[2])
              IN log[i].equal <=> (score.num = score.den)

\* a full match of two texts that differ in case, accent encoding and a
\* trailing space
C28_Witness ==
    /\ IsCall(1, "get_similarity_score")
    /\ log[1].args = <<Words.GRAFO_UP, Words.GRAFO_NFD>>
    /\ log[1].score = Ratio(1, 1)
    /\ compare_accent_insensitive(Words.GRAFO_UP, Words.GRAFO_NFD)

\* a whitespace-only text against a word: no match by either function
C28_WitnessBlank ==
    /\ IsCall(1, "get_similarity_score")
    /\ log[1].args = << <<" ">>, Words.GRAFO >>
    /\ log[1].score.num = 0
    /\ ~compare_accent_insensitive(<<" ">>, Words.GRAFO)

----------------------------------------------------------------------------
(* Claims about submit_answer (SpecAnswer) *)

\* the request of the last call with the other value of is_correct, run on
\* the rows the call found
ClaimOtherFlag ==
    submit_answer(reply[1].before, [reply[1].data EXCEPT !.is_correct = ~@])

\* C29: what submit_answer records does not depend on the is_correct flag of
\* the request: the same request with the other value of the flag, on the
\* same rows, leaves the same progress and session rows and gets the same
\* response
C29_ServerComparisonAuthoritative ==
    reply # None =>
        /\ ClaimOtherFlag.rows = db
        /\ ClaimOtherFlag.response = reply[1].response

ClaimAttemptsBefore ==
    IF reply[1].before.progress = None THEN 0 ELSE reply[1].before.progress[1].attempts

\* C30: after any sequence of answers the counters of the progress record
\* and of the session are consistent: 0 <= streak <= correct_attempts <=
\* attempts, correct_answers <= questions_attempted, interval_days >= 1 and
\* ease_factor <= 3.0; an answer recorded as wrong leaves streak 0 and
\* interval_days 1, and every answer adds exactly one to attempts
C30_ProgressCountersConsistent ==
    /\ db.progress # None =>
           /\ 0 <= db.progress[1].streak
           /\ db.progress[1].streak <= db.progress[1].correct_attempts
           /\ db.progress[1].correct_attempts <= db.progress[1].attempts
           /\ db.progress[1].interval_days >= 1
           /\ db.progress[1].ease_factor <= 300
    /\ db.practice_session # None =>
           db.practice_session[1].correct_answers
               <= db.practice_session[1].questions_attempted
    /\ reply # None =>
           /\ db.progress # None
           /\ db.progress[1].attempts = ClaimAttemptsBefore + 1
           /\ ~reply[1].response.correct =>
                  db.progress[1].streak = 0 /\ db.progress[1].interval_days = 1

\* a wrong answer after a streak of three with an interval above one day
C30_Witness ==
    /\ reply # None
    /\ ~reply[1].response.correct
    /\ reply[1].before.progress # None
    /\ reply[1].before.progress[1].streak >= 3
    /\ reply[1].before.progress[1].interval_days > 6
    /\ db.progress[1].streak = 0
    /\ db.progress[1].interval_days = 1

\* five right answers in a row: ease_factor has reached 3.0 and the session
\* has counted every one of them
C30_WitnessEase ==
    /\ db.progress # None
    /\ db.progress[1].ease_factor = 300
    /\ db.progress[1].streak = MaxAnswers
    /\ db.practice_session[1].correct_answers = MaxAnswers

----------------------------------------------------------------------------
(* Claims about the loaders (SpecLoad) *)

\* the entry list of the source, when the source has one
ClaimItems == GetOr(load[1].source.value, "entries", <<>>)

\* the NormalizedKey of the lemma of the i-th source entry
ClaimKeyOf(i) == normalize_lemma(GetOr(ClaimItems[i], "lemma", <<>>))

\* the last source entry with the given key
ClaimLast(key) ==
    ClaimItems[CHOOSE i \in 1..Len(ClaimItems) :
                  /\ ClaimKeyOf(i) = key
                  /\ \A j \in (i + 1)..Len(ClaimItems) : ClaimKeyOf(j) # key]

\* both loaders have been called on the source and both returned a map
BothReturned ==
    /\ load # None
    /\ load[1].lexicon # None /\ ~load[1].lexicon[1].raised
    /\ load[1].irregulars # None /\ ~load[1].irregulars[1].raised

LexiconMap == load[1].lexicon[1].returned[1]

IrregularsMap == load[1].irregulars[1].returned[1]

\* the keys and the last-wins values of the lexicon map
LexiconIsLastWins ==
    /\ DOMAIN LexiconMap = {ClaimKeyOf(i) : i \in 1..Len(ClaimItems)}
    /\ \A key \in DOMAIN LexiconMap : LexiconMap[key] = EntryOfItem(ClaimLast(key))

\* C16 as stated: each loader returns a map whose key set is exactly the set
\* of NormalizedKeys of the source lemmas, each key mapped to the last source
\* entry with that key, and the two loaders treat one entry list alike
C16_LoadersKeyByNormalizedLemma ==
    BothReturned =>
        /\ LexiconIsLastWins
        /\ DOMAIN IrregularsMap = {ClaimKeyOf(i) : i \in 1..Len(ClaimItems)}
        /\ \A key \in DOMAIN IrregularsMap : IrregularsMap[key] = ClaimLast(key)
        /\ DOMAIN IrregularsMap = DOMAIN LexiconMap

\* C16 amended: load_lexicon keys every source entry by the NormalizedKey of
\* its lemma, the empty key included; load_irregulars does the same but
\* skips the entries whose NormalizedKey is empty; in both maps a key holds
\* the last source entry with that key
C16_IrregularsSkipEmptyKey ==
    BothReturned =>
        /\ LexiconIsLastWins
        /\ DOMAIN IrregularsMap = {ClaimKeyOf(i) : i \in 1..Len(ClaimItems)} \ {<<>>}
        /\ \A key \in DOMAIN IrregularsMap : IrregularsMap[key] = ClaimLast(key)
        /\ DOMAIN IrregularsMap = DOMAIN LexiconMap \ {<<>>}

\* two spellings of one verb: one key, the later entry in both maps
C16_Witness ==
    /\ BothReturned
    /\ ClaimItems = <<SourceItems[1], SourceItems[2]>>
    /\ DOMAIN LexiconMap = {Words.GRAFO_PLAIN}
    /\ LexiconMap[Words.GRAFO_PLAIN].class_id = "B1"
    /\ IrregularsMap[Words.GRAFO_PLAIN] = SourceItems[2]

\* a blank lemma: the lexicon keeps the entry under the empty key, the
\* irregulars map leaves it out
C16_WitnessEmptyKey ==
    /\ BothReturned
    /\ ClaimItems = <<SourceItems[1], SourceItems[5]>>
    /\ DOMAIN LexiconMap = {Words.GRAFO_PLAIN, <<>>}
    /\ DOMAIN IrregularsMap = {Words.GRAFO_PLAIN}

\* the source is malformed: it does not parse, has no entry list, or holds
\* an entry without lemma or class_id
ClaimMalformed(file) ==
    \/ ~file.parses
    \/ ~IsObject(file.value)
    \/ "entries" \notin DOMAIN file.value
    \/ \E i \in 1..Len(file.value.entries) :
          \/ ~IsObject(file.value.entries[i])
          \/ "lemma" \notin DOMAIN file.value.entries[i]
          \/ "class_id" \notin DOMAIN file.value.entries[i]

\* C17: loading is all-or-nothing: for a malformed source load_lexicon and
\* load_irregulars fail with an error instead of returning a map, and a
\* failed load exposes no partially filled map
C17_MalformedSourceFails ==
    load # None =>
        \A loader \in {"lexicon", "irregulars"} :
            load[1][loader] # None =>
                /\ ClaimMalformed(load[1].source) => load[1][loader][1].raised
                /\ load[1][loader][1].raised => load[1][loader][1].returned = None

----------------------------------------------------------------------------
(* Claims about concurrent calls (SpecConc) *)

\* the call of thread t, run alone on the shared maps
ClaimAlone(t) == generate_conjugations(threads[t].lemma, lexicon, irregulars)

\* the dicts reachable from the list thread t holds
ClaimFormIds(t) == {threads[t].forms[i] : i \in 1..Len(threads[t].forms)}

ClaimStemsIds(t) == {heap.forms[id].morphology.stems : id \in ClaimFormIds(t)}

\* C15: in every interleaving of generate_conjugations calls that share the
\* lexicon map, the irregulars map and the class table, a call that has
\* returned holds the list it returns when run alone (and a call raises
\* exactly when it raises alone), the lists of two calls refer to no common
\* form dict or stems dict, and the lexicon and the irregulars map are what
\* they were before the calls.
C15_ConcurrentCallsIsolated ==
    phase = "serving" =>
        /\ \A t \in ThreadIds :
             /\ threads[t].pc = "done" =>
                  ~ClaimAlone(t).raised /\ FormsOf(t) = ClaimAlone(t).forms
             /\ threads[t].pc = "raised" => ClaimAlone(t).raised
        /\ \A t, u \in ThreadIds :
             t # u => /\ ClaimFormIds(t) \cap ClaimFormIds(u) = {}
                      /\ ClaimStemsIds(t) \cap ClaimStemsIds(u) = {}
        /\ lexicon = load_lexicon(ConcLexiconFile)
        /\ irregulars = load_irregulars(ConcIrregularsFile)

\* two calls for the same verb have both returned, each with its own 48
\* dicts, and the override reached the aorist of both
C15_Witness ==
    /\ phase = "serving"
    /\ \A t \in ThreadIds :
         /\ threads[t].pc = "done"
         /\ threads[t].lemma = Words.GRAFO
         /\ Len(threads[t].forms) = 48
         /\ \E i \in 1..48 : FormsOf(t)[i].form = Words.EGRAPSA
    /\ ClaimFormIds(1) \cap ClaimFormIds(2) = {}

\* the two calls are inside their override loops at the same time, the
\* second one further on than the first
C15_WitnessInterleaved ==
    /\ phase = "serving"
    /\ \A t \in ThreadIds : threads[t].pc = "override" /\ threads[t].lemma = Words.GRAFO
    /\ threads[1].item > 1
    /\ threads[2].item > threads[1].item
    /\ threads[2].item <= 48

====
